---- MODULE Spec2Model ----
(***************************************************************************)
(* Cross-chunk entity consolidation of pdf2bpmn: the per-chunk conversion  *)
(* of oracle candidates into entities (EntityExtractor.convert_to_entities)*)
(* the accumulation over chunks (PDF2BPMNWorkflow.extract_candidates) and  *)
(* the batch normalization pass (PDF2BPMNWorkflow.normalize_entities).     *)
(*                                                                         *)
(* Strings are sequences of one-character strings, so that lower(),        *)
(* strip() and the "in" substring test are computed.  Ids (uuid4 strings)  *)
(* are positive integers, fresh per kind; the empty id "" is 0.            *)
(***************************************************************************)
EXTENDS Integers, Sequences, FiniteSets, Bags, TLC

VARIABLES
    process_name_to_id,   \* self.process_name_to_id : lower-cased name -> proc_id
    role_name_to_id,      \* self.role_name_to_id    : lower-cased name -> role_id
    task_role_map,        \* self.task_role_map      : task_id -> role_id
    task_process_map,     \* self.task_process_map   : task_id -> proc_id
    sequence_flows,       \* self.sequence_flows     : list of flows
    all_processes,        \* extract_candidates' all_processes
    all_tasks,            \* extract_candidates' all_tasks
    all_roles,            \* extract_candidates' all_roles
    all_gateways,         \* extract_candidates' all_gateways
    all_events,           \* extract_candidates' all_events
    extracted,            \* the oracle's answer for the chunk ingested last
    entities,             \* convert_to_entities' result for that chunk
    state,                \* the workflow state dict (processes, tasks, ...)
    store,                \* the graph store: nodes and NEXT edges
    sim_log,              \* the find_similar_entity answers of _deduplicate_entities
    sim_in,               \* text matches handed to find_similar_entity
    sim_out,              \* find_similar_entity's answer for sim_in
    section_index,        \* the number of sections extract_candidates has been through
    oracle_errors,        \* the number of sections extract_from_text caught an exception for
    ambiguities,          \* the Ambiguity objects: amb_id -> entity_id, options, status, answer
    exception,            \* the exception that ended the run, "" while none has
    existing_context,     \* the existing_context of the prompt the oracle was invoked with last
    bpmn_in,              \* the arguments of the last call of BPMNGenerator.generate
    bpmn_xml,             \* the document that call returned
    output_dir,           \* Config.OUTPUT_DIR: file name -> the document saved under it
    merge_in,             \* the state list and the list a node returned for it, as the reducer was last called
    merge_out,            \* the state list the reducer returned
    upload_dir,           \* Config.UPLOAD_DIR: file name -> the document saved under it
    job_progress,         \* job_progress: job_id -> the job's status record
    job_runs,             \* the background runs started, in the order of their start
    job_streams,          \* the status stream opened for each job
    http_response         \* the answer to the last request

vars == <<process_name_to_id, role_name_to_id, task_role_map, task_process_map,
          sequence_flows, all_processes, all_tasks, all_roles, all_gateways,
          all_events, extracted, entities, state, store, sim_log, sim_in, sim_out,
          section_index, oracle_errors, ambiguities, exception, existing_context,
          bpmn_in, bpmn_xml,
          output_dir,
          merge_in, merge_out,
          upload_dir, job_progress, job_runs, job_streams, http_response>>

-----------------------------------------------------------------------------
(* Bounds of the model *)

MaxSections == 2       \* sections of the document
MaxProcesses == 2      \* processes emitted by the oracle over a run
MaxRoles == 2          \* roles emitted by the oracle over a run
MaxTasks == 3
MaxChunkTasks == 2
MaxAskTasks == 11          \* tasks emitted by the oracle over a run
MaxGateways == 1       \* gateways emitted by the oracle over a run
MaxEvents == 1         \* events emitted by the oracle over a run
MaxFlows == 1          \* explicit sequence flows of a chunk
MaxMatches == 2        \* text matches handed to find_similar_entity

-----------------------------------------------------------------------------
(* Strings *)

\* the empty string ""
Empty == << >>

\* Python's None, for a field the oracle returned as null
None == <<"None">>

\* str.lower() on one character
LowerChar(c) ==
    CASE c = "A" -> "a"
      [] c = "E" -> "e"
      [] c = "G" -> "g"
      [] c = "M" -> "m"
      [] c = "O" -> "o"
      [] c = "P" -> "p"
      [] c = "Q" -> "q"
      [] c = "R" -> "r"
      [] c = "T" -> "t"
      [] c = "U" -> "u"
      [] OTHER -> c

\* str.lower()
Lower(s) == [i \in 1..Len(s) |-> LowerChar(s[i])]

\* str.strip(): leading and trailing blanks removed
RECURSIVE Strip(_)
Strip(s) ==
    IF s = << >> THEN << >>
    ELSE IF Head(s) = " " THEN Strip(Tail(s))
    ELSE IF s[Len(s)] = " " THEN Strip(SubSeq(s, 1, Len(s) - 1))
    ELSE s

\* the Python test "sub in s" on strings
Contains(sub, s) ==
    \E i \in 1..(Len(s) - Len(sub) + 1) : SubSeq(s, i, i + Len(sub) - 1) = sub

\* dict.get(key, default) on a field bag
Get(bag, key, default) == IF key \in DOMAIN bag THEN bag[key] ELSE default

\* the idiom (bag.get(key) or "")
GetOrEmpty(bag, key) ==
    IF key \in DOMAIN bag /\ bag[key] # None THEN bag[key] ELSE Empty

\* d[k] = v on a dict
DictSet(d, k, v) == (k :> v) @@ d

\* d.update(e) on dicts
DictUpdate(d, e) == e @@ d

EmptyDict == << >>

\* the default names "Unknown Process", "Unknown Role", "Event", "Task "
UnknownProcess == <<"U","n","k","n","o","w","n"," ","P","r","o","c","e","s","s">>
UnknownRole == <<"U","n","k","n","o","w","n"," ","R","o","l","e">>
DefaultEventName == <<"E","v","e","n","t">>
TaskPrefix == <<"T","a","s","k"," ">>

\* str(n) for the small numbers of a default task name
Digit(n) ==
    CASE n = 0 -> "0" [] n = 1 -> "1" [] n = 2 -> "2" [] n = 3 -> "3"
      [] n = 4 -> "4" [] n = 5 -> "5" [] n = 6 -> "6" [] n = 7 -> "7"
      [] n = 8 -> "8" [] OTHER -> "9"

\* str(n) for n below 100
Str(n) == IF n < 10 THEN <<Digit(n)>> ELSE <<Digit(n \div 10), Digit(n % 10)>>

-----------------------------------------------------------------------------
(* EntityExtractor.convert_to_entities *)

\* the Process objects of a chunk; ids are fresh: procBase + 1, ...
ConvertProcesses(ps, procBase) ==
    [k \in 1..Len(ps) |->
        [proc_id |-> procBase + k,
         name |-> Get(ps[k], "name", UnknownProcess),
         description |-> Get(ps[k], "description", Empty)]]

\* process_name_to_id after the process loop: every extracted process is
\* entered under its lower-cased name, a later one overwriting an earlier one
RECURSIVE RegisterProcesses(_, _)
RegisterProcesses(reg, procs) ==
    IF procs = << >> THEN reg
    ELSE RegisterProcesses(DictSet(reg, Lower(Head(procs).name), Head(procs).proc_id),
                           Tail(procs))

\* a variant of the registry test that takes every role for a new one
IsNewRoleAlways(role_key, reg) == TRUE

\* the test `role_key not in role_name_to_id`
IsNewRole(role_key, reg) == role_key \notin DOMAIN reg

\* the role loop: a Role is created only when its key is not yet registered
RECURSIVE ConvertRoles(_, _, _, _)
ConvertRoles(rs, reg, roles, roleBase) ==
    IF rs = << >> THEN [roles |-> roles, reg |-> reg]
    ELSE LET role_name == Get(Head(rs), "name", UnknownRole)
             role_key == Lower(role_name)
         IN IF IsNewRole(role_key, reg)
            THEN LET role_id == roleBase + Len(roles) + 1
                     role == [role_id |-> role_id,
                              name |-> role_name,
                              org_unit |-> Get(Head(rs), "org_unit", Empty)]
                 IN ConvertRoles(Tail(rs), DictSet(reg, role_key, role_id),
                                 Append(roles, role), roleBase)
            ELSE ConvertRoles(Tail(rs), reg, roles, roleBase)

\* the decimal digits, and the value of one
Digits == {"0", "1", "2", "3", "4", "5", "6", "7", "8", "9"}

DigitValue(c) == CHOOSE n \in 0..9 : Digit(n) = c

\* the value of a string of digits ("" counts 0)
RECURSIVE Decimal(_)
Decimal(s) ==
    IF s = << >> THEN 0 ELSE 10 * Decimal(SubSeq(s, 1, Len(s) - 1)) + DigitValue(s[Len(s)])

AllDigits(s) == \A k \in 1..Len(s) : s[k] \in Digits

\* float(s) in tenths for a string of digits with at most one point, blanks
\* around it ignored; Unparseable when float(s) raises ValueError
Unparseable == 0 - 1

ParseFloat(s) ==
    LET t == Strip(s)
        points == {k \in 1..Len(t) : t[k] = "."}
    IN IF points = {}
       THEN IF t # << >> /\ AllDigits(t) THEN 10 * Decimal(t) ELSE Unparseable
       ELSE IF Cardinality(points) > 1 THEN Unparseable
       ELSE LET d == CHOOSE k \in points : TRUE
                whole == SubSeq(t, 1, d - 1)
                fraction == SubSeq(t, d + 1, Len(t))
            IN IF AllDigits(whole) /\ AllDigits(fraction) /\ Len(whole) + Len(fraction) > 0
               THEN 10 * Decimal(whole) + (IF fraction = << >> THEN 0 ELSE DigitValue(fraction[1]))
               ELSE Unparseable

\* int(x) of a float given in tenths, zero or more
Truncated(tenths) == tenths \div 10

\* a reading of the stated order that takes only an int
TaskOrderOfIntOnly(task_order, i) ==
    CASE task_order.type = "int" -> task_order.val
      [] OTHER -> i

\* the order of a task from its stated order (i is the task's 0-based index):
\* the index for None, int(x) for an int, a bool or a float, int(float(s))
\* for a string float() parses, and the index for anything else
TaskOrderOf(task_order, i) ==
    CASE task_order.type = "NoneType" -> i
      [] task_order.type = "int" -> task_order.val
      [] task_order.type = "bool" -> IF task_order.val THEN 1 ELSE 0
      [] task_order.type = "float" -> Truncated(task_order.val)
      [] task_order.type = "str" ->
            IF ParseFloat(task_order.val) # Unparseable
            THEN Truncated(ParseFloat(task_order.val)) ELSE i
      [] OTHER -> i

\* the order of the i-th task (i is 0-based); t.get("order") is None for a
\* task that states none
TaskOrder(t, i) == TaskOrderOf(Get(t, "order", [type |-> "NoneType"]), i)

\* the parent process of a task, gateway or event: the registered id of the
\* lower-cased parent_process, else the first process of this chunk, else ""
ParentProcessId(bag, reg, procs) ==
    LET parent_process_name == Lower(GetOrEmpty(bag, "parent_process"))
        process_id == IF parent_process_name # Empty /\ parent_process_name \in DOMAIN reg
                      THEN reg[parent_process_name] ELSE 0
    IN IF process_id = 0 /\ procs # << >> THEN procs[1].proc_id ELSE process_id

\* the enum member a candidate's type field stands for: (bag.get(field) or
\* default).lower() when it is one of the other members, else the default
EnumOf(bag, field, default, others) ==
    LET stated == Lower(GetOrEmpty(bag, field))
    IN IF \E m \in others : stated = m[1] THEN (CHOOSE m \in others : stated = m[1])[2]
       ELSE default

TaskTypeOf(bag) ==
    EnumOf(bag, "task_type", "human",
           {<<<<"a", "g", "e", "n", "t">>, "agent">>, <<<<"s", "y", "s", "t", "e", "m">>, "system">>})

GatewayTypeOf(bag) ==
    EnumOf(bag, "gateway_type", "exclusive",
           {<<<<"p", "a", "r", "a", "l", "l", "e", "l">>, "parallel">>,
            <<<<"i", "n", "c", "l", "u", "s", "i", "v", "e">>, "inclusive">>})

EventTypeOf(bag) ==
    EnumOf(bag, "event_type", "start",
           {<<<<"e", "n", "d">>, "end">>,
            <<<<"i", "n", "t", "e", "r", "m", "e", "d", "i", "a", "t", "e">>, "intermediate">>})

\* the Task objects of a chunk, with the next_task hint kept on the task
ConvertTasks(ts, reg, procs, taskBase) ==
    [k \in 1..Len(ts) |->
        [task_id |-> taskBase + k,
         process_id |-> ParentProcessId(ts[k], reg, procs),
         name |-> Get(ts[k], "name", TaskPrefix \o Str(k)),
         task_type |-> TaskTypeOf(ts[k]),
         description |-> Get(ts[k], "description", Empty),
         order |-> TaskOrder(ts[k], k - 1),
         next_task_name |-> GetOrEmpty(ts[k], "next_task")]]

\* task_process_map after the task loop: every task with a process is entered
RECURSIVE TaskProcessEntries(_, _)
TaskProcessEntries(map, tasks) ==
    IF tasks = << >> THEN map
    ELSE TaskProcessEntries(
            IF Head(tasks).process_id # 0
            THEN DictSet(map, Head(tasks).task_id, Head(tasks).process_id)
            ELSE map,
            Tail(tasks))

\* task_role_map after the task loop: a task whose lower-cased performer_role
\* is a registered key is entered
RECURSIVE TaskRoleEntries(_, _, _, _)
TaskRoleEntries(map, ts, tasks, reg) ==
    IF ts = << >> THEN map
    ELSE LET performer_role == Lower(GetOrEmpty(Head(ts), "performer_role"))
         IN TaskRoleEntries(
               IF performer_role # Empty /\ performer_role \in DOMAIN reg
               THEN DictSet(map, Head(tasks).task_id, reg[performer_role])
               ELSE map,
               Tail(ts), Tail(tasks), reg)

\* the test of the mapping loops: the task's lower-cased name equals the given
\* name or contains it
NameMatches(task, name) == Lower(task.name) = name \/ Contains(name, Lower(task.name))

\* the index of the first task of the list that NameMatches, 0 when none does
FirstMatch(tasks, name) ==
    IF \E k \in 1..Len(tasks) : NameMatches(tasks[k], name)
    THEN CHOOSE k \in 1..Len(tasks) :
            /\ NameMatches(tasks[k], name)
            /\ \A j \in 1..(k - 1) : ~NameMatches(tasks[j], name)
    ELSE 0

\* the explicit task-role mappings: the first matching task gets the role, and
\* nothing happens when the role is not registered
RECURSIVE ApplyTaskRoleMappings(_, _, _, _)
ApplyTaskRoleMappings(map, mappings, tasks, reg) ==
    IF mappings = << >> THEN map
    ELSE LET task_name == Lower(GetOrEmpty(Head(mappings), "task_name"))
             role_name == Lower(GetOrEmpty(Head(mappings), "role_name"))
             k == FirstMatch(tasks, task_name)
         IN ApplyTaskRoleMappings(
               IF k # 0 /\ role_name \in DOMAIN reg
               THEN DictSet(map, tasks[k].task_id, reg[role_name])
               ELSE map,
               Tail(mappings), tasks, reg)

\* the explicit task-process mappings: the first matching task is moved to the
\* process, in the task and in task_process_map
RECURSIVE ApplyTaskProcessMappings(_, _, _, _)
ApplyTaskProcessMappings(map, mappings, tasks, reg) ==
    IF mappings = << >> THEN [tasks |-> tasks, map |-> map]
    ELSE LET task_name == Lower(GetOrEmpty(Head(mappings), "task_name"))
             process_name == Lower(GetOrEmpty(Head(mappings), "process_name"))
             k == FirstMatch(tasks, task_name)
         IN IF k # 0 /\ process_name \in DOMAIN reg
            THEN ApplyTaskProcessMappings(
                    DictSet(map, tasks[k].task_id, reg[process_name]),
                    Tail(mappings),
                    [tasks EXCEPT ![k].process_id = reg[process_name]], reg)
            ELSE ApplyTaskProcessMappings(map, Tail(mappings), tasks, reg)

\* the parent process of a gateway or event: as for a task, but the registry is
\* asked even for an empty name
GatewayProcessId(bag, reg, procs) ==
    LET parent_process_name == Lower(GetOrEmpty(bag, "parent_process"))
        process_id == IF parent_process_name \in DOMAIN reg
                      THEN reg[parent_process_name] ELSE 0
    IN IF process_id = 0 /\ procs # << >> THEN procs[1].proc_id ELSE process_id

ConvertGateways(gs, reg, procs, gatewayBase) ==
    [k \in 1..Len(gs) |->
        [gateway_id |-> gatewayBase + k,
         process_id |-> GatewayProcessId(gs[k], reg, procs),
         gateway_type |-> GatewayTypeOf(gs[k])]]

ConvertEvents(es, reg, procs, eventBase) ==
    [k \in 1..Len(es) |->
        [event_id |-> eventBase + k,
         process_id |-> GatewayProcessId(es[k], reg, procs),
         event_type |-> EventTypeOf(es[k]),
         name |-> Get(es[k], "name", DefaultEventName)]]

\* the index of the last task of the list that NameMatches, 0 when none does
LastMatch(tasks, name) ==
    IF \E k \in 1..Len(tasks) : NameMatches(tasks[k], name)
    THEN CHOOSE k \in 1..Len(tasks) :
            /\ NameMatches(tasks[k], name)
            /\ \A j \in (k + 1)..Len(tasks) : ~NameMatches(tasks[j], name)
    ELSE 0

\* the explicit sequence flows: each end is the last task whose name matches a
\* non-empty given name; a flow with both ends found is appended
RECURSIVE ExplicitFlows(_, _, _)
ExplicitFlows(flows, fs, tasks) ==
    IF fs = << >> THEN flows
    ELSE LET from_task_name == Lower(GetOrEmpty(Head(fs), "from_task"))
             to_task_name == Lower(GetOrEmpty(Head(fs), "to_task"))
             f == IF from_task_name # Empty THEN LastMatch(tasks, from_task_name) ELSE 0
             t == IF to_task_name # Empty THEN LastMatch(tasks, to_task_name) ELSE 0
         IN ExplicitFlows(
               IF f # 0 /\ t # 0
               THEN Append(flows, [from_task_id |-> tasks[f].task_id,
                                   to_task_id |-> tasks[t].task_id,
                                   condition |-> Get(Head(fs), "condition", Empty)])
               ELSE flows,
               Tail(fs), tasks)

\* the flows of the next_task hints: from each hinted task to the first task
\* whose name matches the hint
RECURSIVE NextTaskFlows(_, _, _)
NextTaskFlows(flows, k, tasks) ==
    IF k > Len(tasks) THEN flows
    ELSE LET next_name == Lower(tasks[k].next_task_name)
             o == FirstMatch(tasks, next_name)
         IN NextTaskFlows(
               IF tasks[k].next_task_name # Empty /\ o # 0
               THEN Append(flows, [from_task_id |-> tasks[k].task_id,
                                   to_task_id |-> tasks[o].task_id,
                                   condition |-> Empty])
               ELSE flows,
               k + 1, tasks)

\* sorted(proc_tasks, key=lambda t: t.order): a stable sort
RECURSIVE InsertByOrder(_, _)
InsertByOrder(sorted, t) ==
    IF sorted = << >> THEN <<t>>
    ELSE IF sorted[Len(sorted)].order <= t.order THEN Append(sorted, t)
    ELSE Append(InsertByOrder(SubSeq(sorted, 1, Len(sorted) - 1), t), sorted[Len(sorted)])

RECURSIVE SortByOrder(_, _)
SortByOrder(sorted, ts) ==
    IF ts = << >> THEN sorted ELSE SortByOrder(InsertByOrder(sorted, Head(ts)), Tail(ts))

\* the keys of tasks_by_process in insertion order (task.process_id or
\* "default", which is 0 here)
RECURSIVE ProcessKeys(_, _)
ProcessKeys(keys, tasks) ==
    IF tasks = << >> THEN keys
    ELSE ProcessKeys(
            IF \E j \in 1..Len(keys) : keys[j] = Head(tasks).process_id
            THEN keys ELSE Append(keys, Head(tasks).process_id),
            Tail(tasks))

\* the tasks of a process in the order they were extracted in
UnsortedTasksOf(proc_id, tasks) == SelectSeq(tasks, LAMBDA t : t.process_id = proc_id)

\* tasks_by_process[proc_id], sorted by order
SortedTasksOf(proc_id, tasks) ==
    SortByOrder(<< >>, SelectSeq(tasks, LAMBDA t : t.process_id = proc_id))

\* the pairs (from_task_id, to_task_id) of a list of flows
FlowPairs(flows) == {<<flows[k].from_task_id, flows[k].to_task_id>> : k \in 1..Len(flows)}

\* a test that lets every pair through
IsNewFlowAlways(pair, existing_flows) == TRUE

\* (from_task.task_id, to_task.task_id) not in existing_flows
IsNewFlow(pair, existing_flows) == pair \notin existing_flows

\* the chain of one process: a flow between each two order-adjacent tasks
\* whose pair is not among existing_flows
RECURSIVE ChainFlows(_, _, _, _)
ChainFlows(flows, sorted_tasks, i, existing_flows) ==
    IF i >= Len(sorted_tasks) THEN flows
    ELSE ChainFlows(
            IF IsNewFlow(<<sorted_tasks[i].task_id, sorted_tasks[i + 1].task_id>>, existing_flows)
            THEN Append(flows, [from_task_id |-> sorted_tasks[i].task_id,
                                to_task_id |-> sorted_tasks[i + 1].task_id,
                                condition |-> Empty])
            ELSE flows,
            sorted_tasks, i + 1, existing_flows)

\* the default flows of every process of the chunk; existing_flows is computed
\* once, before the loop
RECURSIVE DefaultFlows(_, _, _, _)
DefaultFlows(flows, keys, tasks, existing_flows) ==
    IF keys = << >> THEN flows
    ELSE DefaultFlows(ChainFlows(flows, SortedTasksOf(Head(keys), tasks), 1, existing_flows),
                      Tail(keys), tasks, existing_flows)

\* no exception
NoException == ""

\* the first exception of a list of steps, each raising an exception or none
RECURSIVE FirstRaised(_)
FirstRaised(raised) ==
    IF raised = << >> THEN NoException
    ELSE IF Head(raised) # NoException THEN Head(raised)
    ELSE FirstRaised(Tail(raised))

\* a str field of a pydantic model given a value: null is not a str
StrField(value) == IF value = None THEN "ValidationError" ELSE NoException

\* the process loop: Process(name=..., purpose=..., description=...)
ProcessException(ps) ==
    FirstRaised([k \in 1..(2 * Len(ps)) |->
        IF k % 2 = 1 THEN StrField(Get(ps[(k + 1) \div 2], "name", UnknownProcess))
        ELSE StrField(Get(ps[k \div 2], "description", Empty))])

\* the role loop: role_name.lower() on every role, and Role(name=...,
\* org_unit=...) for a role whose key is not registered
RoleException(rs, reg) ==
    FirstRaised([k \in 1..Len(rs) |->
        LET role_name == Get(rs[k], "name", UnknownRole)
            before == ConvertRoles(SubSeq(rs, 1, k - 1), reg, << >>, 0).reg
        IN IF role_name = None THEN "AttributeError"
           ELSE IF IsNewRole(Lower(role_name), before)
           THEN StrField(Get(rs[k], "org_unit", Empty))
           ELSE NoException])

\* the task loop: Task(name=..., description=...)
TaskException(ts) ==
    FirstRaised([k \in 1..(2 * Len(ts)) |->
        IF k % 2 = 1 THEN StrField(Get(ts[(k + 1) \div 2], "name", TaskPrefix))
        ELSE StrField(Get(ts[k \div 2], "description", Empty))])

\* the event loop: Event(name=...)
EventException(es) ==
    FirstRaised([k \in 1..Len(es) |-> StrField(Get(es[k], "name", DefaultEventName))])

\* the exception convert_to_entities raises for the candidates, if any
ConvertException(ex, existing_roles) ==
    FirstRaised(<<ProcessException(ex.processes), RoleException(ex.roles, existing_roles),
                  TaskException(ex.tasks), EventException(ex.events)>>)

\* convert_to_entities(extracted, ..., existing_processes, existing_roles);
\* the bases are the numbers of ids of each kind handed out so far
convert_to_entities(ex, existing_processes, existing_roles, procBase, roleBase, taskBase, gatewayBase, eventBase) ==
    LET processes == ConvertProcesses(ex.processes, procBase)
        process_reg == RegisterProcesses(existing_processes, processes)
        rolesDone == ConvertRoles(ex.roles, existing_roles, << >>, roleBase)
        role_reg == rolesDone.reg
        tasks0 == ConvertTasks(ex.tasks, process_reg, processes, taskBase)
        tpm0 == TaskProcessEntries(EmptyDict, tasks0)
        trm0 == TaskRoleEntries(EmptyDict, ex.tasks, tasks0, role_reg)
        trm == ApplyTaskRoleMappings(trm0, ex.task_role_mappings, tasks0, role_reg)
        moved == ApplyTaskProcessMappings(tpm0, ex.task_process_mappings, tasks0, process_reg)
        tasks == moved.tasks
        flows1 == ExplicitFlows(<< >>, ex.sequence_flows, tasks)
        flows2 == NextTaskFlows(flows1, 1, tasks)
        flows3 == DefaultFlows(flows2, ProcessKeys(<< >>, tasks), tasks, FlowPairs(flows2))
    IN [processes |-> processes,
        roles |-> rolesDone.roles,
        tasks |-> tasks,
        gateways |-> ConvertGateways(ex.gateways, process_reg, processes, gatewayBase),
        events |-> ConvertEvents(ex.events, process_reg, processes, eventBase),
        task_role_map |-> trm,
        task_process_map |-> moved.map,
        sequence_flows |-> flows3]

\* EntityExtractor._build_context on the names handed to extract_from_text,
\* each argument None or a list of names: "" when both are None or empty, else
\* the template filled with the two lists
_build_context(existing_processes, existing_roles) ==
    IF existing_processes \in {None, << >>} /\ existing_roles \in {None, << >>} THEN Empty
    ELSE [process_list |-> IF existing_processes \in {None, << >>} THEN Empty ELSE existing_processes,
          role_list |-> IF existing_roles \in {None, << >>} THEN Empty ELSE existing_roles]

-----------------------------------------------------------------------------
(* BPMNGenerator.generate *)

\* an element of the rendered document: its tag, its id attribute (a prefix
\* of the template and the id of an entity, 0 for none), for a sequence flow
\* its sourceRef and targetRef, for a lane its flowNodeRef children, for a flow
\* node its incoming and outgoing children; other attributes are left out
Id(prefix, ref) == [prefix |-> prefix, ref |-> ref]

NoId == Id("", 0)

Element(tag, id) ==
    [tag |-> tag, id |-> id, sourceRef |-> NoId, targetRef |-> NoId,
     flowNodeRef |-> << >>, incoming |-> << >>, outgoing |-> << >>]

\* a flow node with its incoming and outgoing children
FlowNode(tag, id, incoming, outgoing) ==
    [Element(tag, id) EXCEPT !.incoming = incoming, !.outgoing = outgoing]

\* the task element of the template
TaskElement(tag, task) ==
    FlowNode(tag, Id("Task_", task.task_id),
             <<Id("Flow_To_", task.task_id)>>, <<Id("Flow_From_", task.task_id)>>)

\* the tag of a task element: userTask for a human task, serviceTask for a
\* system task, task for any other
TaskTag(task) ==
    CASE task.task_type = "human" -> "bpmn:userTask"
      [] task.task_type = "system" -> "bpmn:serviceTask"
      [] OTHER -> "bpmn:task"

\* a task loop that renders the human tasks only
HumanTaskElements(tasks) ==
    [k \in 1..Len(SelectSeq(tasks, LAMBDA t : t.task_type = "human")) |->
        TaskElement("bpmn:userTask", SelectSeq(tasks, LAMBDA t : t.task_type = "human")[k])]

\* the task loop of the template: one element per task
TaskElements(tasks) ==
    [k \in 1..Len(tasks) |-> TaskElement(TaskTag(tasks[k]), tasks[k])]

\* the tag of a gateway element
GatewayTag(gateway) ==
    CASE gateway.gateway_type = "exclusive" -> "bpmn:exclusiveGateway"
      [] gateway.gateway_type = "parallel" -> "bpmn:parallelGateway"
      [] OTHER -> "bpmn:inclusiveGateway"

\* a flow dict of _generate_sequence_flows
FlowDict(id, source, target) == [id |-> id, source |-> source, target |-> target]

\* _generate_sequence_flows: from the start events to the first task by
\* order, between order-adjacent tasks, and from the last task to the end
\* events, each junction twice over
_generate_sequence_flows(tasks, gateways, start_events, end_events) ==
    LET sorted_tasks == SortByOrder(<< >>, tasks)
        n == Len(sorted_tasks)
        first_task == sorted_tasks[1]
        last_task == sorted_tasks[n]
        from_start ==
            IF n = 0 THEN << >>
            ELSE (IF start_events # << >>
                  THEN [k \in 1..Len(start_events) |->
                          FlowDict(Id("Flow_Start_", start_events[k].event_id),
                                   Id("StartEvent_", start_events[k].event_id),
                                   Id("Task_", first_task.task_id))]
                  ELSE <<FlowDict(Id("Flow_Start_Default", 0), Id("StartEvent_Default", 0),
                                  Id("Task_", first_task.task_id))>>)
                 \o <<FlowDict(Id("Flow_To_", first_task.task_id),
                               IF start_events # << >> THEN Id("", start_events[1].event_id)
                               ELSE Id("StartEvent_Default", 0),
                               Id("Task_", first_task.task_id))>>
        between ==
            [k \in 1..(2 * (IF n = 0 THEN 0 ELSE n - 1)) |->
                LET i == (k + 1) \div 2
                IN FlowDict(IF k % 2 = 1 THEN Id("Flow_From_", sorted_tasks[i].task_id)
                            ELSE Id("Flow_To_", sorted_tasks[i + 1].task_id),
                            Id("Task_", sorted_tasks[i].task_id),
                            Id("Task_", sorted_tasks[i + 1].task_id))]
        to_end ==
            IF n = 0 THEN << >>
            ELSE (IF end_events # << >>
                  THEN [k \in 1..Len(end_events) |->
                          FlowDict(Id("Flow_End_", end_events[k].event_id),
                                   Id("Task_", last_task.task_id),
                                   Id("EndEvent_", end_events[k].event_id))]
                  ELSE <<FlowDict(Id("Flow_End_Default", 0), Id("Task_", last_task.task_id),
                                  Id("EndEvent_Default", 0))>>)
                 \o <<FlowDict(Id("Flow_From_", last_task.task_id),
                               Id("Task_", last_task.task_id),
                               IF end_events # << >> THEN Id("", end_events[1].event_id)
                               ELSE Id("EndEvent_Default", 0))>>
    IN from_start \o between \o to_end

\* a lane of the template with a flowNodeRef child per task
Lane(id, tasks) ==
    [Element("bpmn:lane", id) EXCEPT
        !.flowNodeRef = [k \in 1..Len(tasks) |-> Id("Task_", tasks[k].task_id)]]

\* BPMNGenerator.generate: the elements of the rendered template in document
\* order, the diagram part being one element
generate(process, tasks, roles, gateways, events, task_role_map_) ==
    LET sorted_tasks == SortByOrder(<< >>, tasks)
        role_of(task) == Get(task_role_map_, task.task_id, 0)
        tasks_by_role(role_id) == SelectSeq(sorted_tasks, LAMBDA t : role_of(t) # 0 /\ role_of(t) = role_id)
        unassigned_tasks == SelectSeq(sorted_tasks, LAMBDA t : role_of(t) = 0)
        start_events == SelectSeq(events, LAMBDA e : e.event_type = "start")
        end_events == SelectSeq(events, LAMBDA e : e.event_type = "end")
        sequence_flows_ == _generate_sequence_flows(tasks, gateways, start_events, end_events)
    IN <<Element("?xml", NoId),
         Element("bpmn:definitions", Id("Definitions_", process.proc_id)),
         Element("bpmn:collaboration", Id("Collaboration_", process.proc_id)),
         Element("bpmn:participant", Id("Participant_", process.proc_id)),
         Element("bpmn:process", Id("Process_", process.proc_id)),
         Element("bpmn:laneSet", Id("LaneSet_", process.proc_id))>>
       \o [k \in 1..Len(roles) |-> Lane(Id("Lane_", roles[k].role_id), tasks_by_role(roles[k].role_id))]
       \o (IF unassigned_tasks # << >>
           THEN <<Lane(Id("Lane_Unassigned", 0), unassigned_tasks)>> ELSE << >>)
       \o [k \in 1..Len(start_events) |->
              FlowNode("bpmn:startEvent", Id("StartEvent_", start_events[k].event_id),
                       << >>, <<Id("Flow_Start_", start_events[k].event_id)>>)]
       \o (IF start_events = << >>
           THEN <<FlowNode("bpmn:startEvent", Id("StartEvent_Default", 0),
                           << >>, <<Id("Flow_Start_Default", 0)>>)>>
           ELSE << >>)
       \o TaskElements(sorted_tasks)
       \o [k \in 1..Len(gateways) |->
              FlowNode(GatewayTag(gateways[k]), Id("Gateway_", gateways[k].gateway_id),
                       <<Id("Flow_To_Gateway_", gateways[k].gateway_id)>>,
                       <<Id("Flow_From_Gateway_Yes_", gateways[k].gateway_id),
                         Id("Flow_From_Gateway_No_", gateways[k].gateway_id)>>)]
       \o [k \in 1..Len(end_events) |->
              FlowNode("bpmn:endEvent", Id("EndEvent_", end_events[k].event_id),
                       <<Id("Flow_End_", end_events[k].event_id)>>, << >>)]
       \o (IF end_events = << >>
           THEN <<FlowNode("bpmn:endEvent", Id("EndEvent_Default", 0),
                           <<Id("Flow_End_Default", 0)>>, << >>)>>
           ELSE << >>)
       \o [k \in 1..Len(sequence_flows_) |->
              [Element("bpmn:sequenceFlow", sequence_flows_[k].id) EXCEPT
                  !.sourceRef = sequence_flows_[k].source,
                  !.targetRef = sequence_flows_[k].target]]
       \o <<Element("bpmndi:BPMNDiagram", Id("BPMNDiagram_", process.proc_id))>>

\* no call of generate yet
NoArguments == [process |-> [proc_id |-> 0], tasks |-> << >>, roles |-> << >>,
                gateways |-> << >>, events |-> << >>, task_role_map |-> EmptyDict]

-----------------------------------------------------------------------------
(* VectorSearch.find_similar_entity *)

\* Config.SIMILARITY_MERGE_THRESHOLD and Config.SIMILARITY_REVIEW_THRESHOLD,
\* in hundredths, as every similarity score of the model
merge_threshold == 90
review_threshold == 80

\* the loop over text_matches: the match with the highest similarity, the
\* first one of equal similarity being kept; best_score starts at 0.0
RECURSIVE BestMatch(_, _)
BestMatch(best, text_matches) ==
    IF text_matches = << >> THEN best
    ELSE BestMatch(
            IF Head(text_matches).similarity > best.score
            THEN [match |-> Head(text_matches).node, score |-> Head(text_matches).similarity]
            ELSE best,
            Tail(text_matches))

\* a variant of find_similar_entity that keeps the last of the matches of the
\* best similarity
find_similar_entity_latest(text_matches) ==
    IF text_matches = << >> THEN [match |-> 0, score |-> 0, action |-> "create"]
    ELSE LET best == BestMatch([match |-> 0, score |-> 0], text_matches)
             last == CHOOSE k \in 1..Len(text_matches) :
                        /\ text_matches[k].similarity >= best.score
                        /\ \A j \in (k + 1)..Len(text_matches) :
                              text_matches[j].similarity < best.score
         IN IF best.score >= merge_threshold
            THEN [match |-> text_matches[last].node, score |-> best.score, action |-> "merge"]
            ELSE IF best.score >= review_threshold
            THEN [match |-> text_matches[last].node, score |-> best.score, action |-> "review"]
            ELSE [match |-> 0, score |-> best.score, action |-> "create"]

\* a variant of find_similar_entity whose thresholds are exclusive
find_similar_entity_exclusive(text_matches) ==
    IF text_matches = << >> THEN [match |-> 0, score |-> 0, action |-> "create"]
    ELSE LET best == BestMatch([match |-> 0, score |-> 0], text_matches)
         IN IF best.score > merge_threshold
            THEN [match |-> best.match, score |-> best.score, action |-> "merge"]
            ELSE IF best.score > review_threshold
            THEN [match |-> best.match, score |-> best.score, action |-> "review"]
            ELSE [match |-> 0, score |-> best.score, action |-> "create"]

\* find_similar_entity, given the nodes the full-text search returned, each
\* with the cosine similarity of its embedding to the query's; match 0 is None
find_similar_entity(text_matches) ==
    IF text_matches = << >> THEN [match |-> 0, score |-> 0, action |-> "create"]
    ELSE LET best == BestMatch([match |-> 0, score |-> 0], text_matches)
         IN IF best.score >= merge_threshold
            THEN [match |-> best.match, score |-> best.score, action |-> "merge"]
            ELSE IF best.score >= review_threshold
            THEN [match |-> best.match, score |-> best.score, action |-> "review"]
            ELSE [match |-> 0, score |-> best.score, action |-> "create"]

-----------------------------------------------------------------------------
(* PDF2BPMNWorkflow._deduplicate_entities *)

\* what the similarity lookup of one entity does: it raises, or the full-text
\* search returns text_matches
Raised == [raised |-> TRUE, text_matches |-> << >>]
Matched(text_matches) == [raised |-> FALSE, text_matches |-> text_matches]

\* the lookup is not made for an entity whose name has been seen
NotAsked == [match |-> 0, score |-> 0, action |-> "seen"]
Failed == [match |-> 0, score |-> 0, action |-> "error"]

\* a variant of the key of seen_names that keeps case and blanks
RawName(entity) == entity.name

\* the key of seen_names
NormalizedName(entity) == Strip(Lower(entity.name))

\* the loop of _deduplicate_entities over entities[k..]; lookups[k] is what the
\* similarity lookup of entities[k] does if it is made.  The result is the
\* list unique and, per entity, the answer the lookup gave.
RECURSIVE Deduplicate(_, _, _, _, _, _)
Deduplicate(entities_, lookups, k, seen_names, unique, log) ==
    IF k > Len(entities_) THEN [unique |-> unique, log |-> log]
    ELSE LET entity == entities_[k]
             name == NormalizedName(entity)
         IN IF name \in seen_names
            THEN Deduplicate(entities_, lookups, k + 1, seen_names, unique,
                             Append(log, NotAsked))
            ELSE IF lookups[k].raised
            THEN Deduplicate(entities_, lookups, k + 1, seen_names \cup {name},
                             Append(unique, entity), Append(log, Failed))
            ELSE LET found == find_similar_entity(lookups[k].text_matches)
                 IN IF found.action = "merge" /\ found.match # 0
                    THEN Deduplicate(entities_, lookups, k + 1, seen_names, unique,
                                     Append(log, found))
                    ELSE Deduplicate(entities_, lookups, k + 1, seen_names \cup {name},
                                     Append(unique, entity), Append(log, found))

_deduplicate_entities(entities_, lookups) ==
    Deduplicate(entities_, lookups, 1, {}, << >>, << >>)

-----------------------------------------------------------------------------
(* The graph store (Neo4jClient) *)

\* MERGE of one node per entity of a list, keyed by its id
CreateNodes(nodes, kind, ids) == nodes \cup {[kind |-> kind, id |-> i] : i \in ids}

HasNode(nodes, kind, id) == [kind |-> kind, id |-> id] \in nodes

Ids(list, field) == {list[k][field] : k \in 1..Len(list)}

\* create_task: the HAS_TASK edge is merged when the task's process is a node
CreateTaskEdges(nodes, tasks) ==
    {<<tasks[k].process_id, tasks[k].task_id>> :
        k \in {j \in 1..Len(tasks) : HasNode(nodes, "Process", tasks[j].process_id)}}

\* create_all_relationships: an edge is merged when both its ends are nodes
MapEdges(nodes, map, fromKind, toKind) ==
    {<<map[t], t>> : t \in {u \in DOMAIN map :
                               HasNode(nodes, fromKind, map[u]) /\ HasNode(nodes, toKind, u)}}

\* link_task_sequence: the NEXT edge is merged when both tasks are nodes
LinkTaskSequence(nodes, pairs) ==
    {pr \in pairs : HasNode(nodes, "Task", pr[1]) /\ HasNode(nodes, "Task", pr[2])}

\* the pairs of adjacent elements of a list of tasks
AdjacentPairs(sorted_tasks) ==
    {<<sorted_tasks[i].task_id, sorted_tasks[i + 1].task_id>> : i \in 1..(Len(sorted_tasks) - 1)}

\* the pairs _create_sequence_flows links from the process groups of the
\* consolidated tasks
OrderPairs(tasks) ==
    UNION {AdjacentPairs(SortedTasksOf(tasks[k].process_id, tasks)) : k \in 1..Len(tasks)}

\* ORDER BY t.order in the store: tasks of equal order come in an order the
\* store chooses, given by the ranks tie
RECURSIVE InsertByStoreOrder(_, _, _)
InsertByStoreOrder(sorted, t, tie) ==
    IF sorted = << >> THEN <<t>>
    ELSE LET last == sorted[Len(sorted)]
         IN IF last.order < t.order \/ (last.order = t.order /\ tie[last.task_id] < tie[t.task_id])
            THEN Append(sorted, t)
            ELSE Append(InsertByStoreOrder(SubSeq(sorted, 1, Len(sorted) - 1), t, tie), last)

RECURSIVE StoreSort(_, _, _)
StoreSort(sorted, ts, tie) ==
    IF ts = << >> THEN sorted
    ELSE StoreSort(InsertByStoreOrder(sorted, Head(ts), tie), Tail(ts), tie)

\* create_task_sequence_for_process: NEXT between the order-adjacent tasks the
\* process HAS_TASK
ProcessSequencePairs(proc_id, has_task, tasks, tie) ==
    AdjacentPairs(StoreSort(<< >>,
        SelectSeq(tasks, LAMBDA t : <<proc_id, t.task_id>> \in has_task), tie))

\* CREATE in place of MERGE: a relationship is added for every pair, whether
\* the two tasks are linked already or not
CreateEdges(next, pairs) == next (+) SetToBag(pairs)

\* MERGE (t1)-[:NEXT]->(t2) for each of the pairs: the relationship is created
\* when the two tasks have none; next is the bag of the NEXT relationships
MergeEdges(next, pairs) == next (+) SetToBag({pr \in pairs : ~BagIn(pr, next)})

\* the loop over the processes that ends _create_sequence_flows
RECURSIVE CreateProcessSequences(_, _, _, _, _)
CreateProcessSequences(next, processes, has_task, tasks, tie) ==
    IF processes = << >> THEN next
    ELSE CreateProcessSequences(
            MergeEdges(next, ProcessSequencePairs(Head(processes).proc_id, has_task, tasks, tie)),
            Tail(processes), has_task, tasks, tie)

\* _create_sequence_flows on a store whose NEXT relationships are next: the
\* accumulated flows are linked, then the order-adjacent tasks of each process
\* group (each pair once: created_flows), then the store links the tasks of
\* each process
_create_sequence_flows(nodes, has_task, next, flows, tasks, processes, tie) ==
    CreateProcessSequences(
        MergeEdges(MergeEdges(next, LinkTaskSequence(nodes, FlowPairs(flows))),
                   LinkTaskSequence(nodes, {pr \in OrderPairs(tasks) : IsNewFlow(pr, FlowPairs(flows))})),
        processes, has_task, tasks, tie)

-----------------------------------------------------------------------------
(* The inference passes of normalize_entities *)

\* the keywords of a role: its lower-cased name, and its org_unit when it has one
RoleKeywords(role) ==
    IF role.org_unit # Empty THEN <<Lower(role.name), Lower(role.org_unit)>>
    ELSE <<Lower(role.name)>>

\* a variant of the scan that takes every keyword, however short
InferredRoleAnyLength(task, roles) ==
    LET task_text == Lower(task.name \o <<" ">> \o task.description)
        hit(role) == \E j \in 1..Len(RoleKeywords(role)) :
                        Contains(RoleKeywords(role)[j], task_text)
    IN IF \E k \in 1..Len(roles) : hit(roles[k])
       THEN roles[CHOOSE k \in 1..Len(roles) :
                     hit(roles[k]) /\ \A j \in 1..(k - 1) : ~hit(roles[j])].role_id
       ELSE 0

\* the role a task without a role is given: the first role in list order one
\* of whose keywords, longer than 2 characters, is in the task's text; 0 if none
InferredRole(task, roles) ==
    LET task_text == Lower(task.name \o <<" ">> \o task.description)
        hit(role) == \E j \in 1..Len(RoleKeywords(role)) :
                        /\ Contains(RoleKeywords(role)[j], task_text)
                        /\ Len(RoleKeywords(role)[j]) > 2
    IN IF \E k \in 1..Len(roles) : hit(roles[k])
       THEN roles[CHOOSE k \in 1..Len(roles) :
                     hit(roles[k]) /\ \A j \in 1..(k - 1) : ~hit(roles[j])].role_id
       ELSE 0

\* _infer_task_role_relationships: task_role_map afterwards
RECURSIVE _infer_task_role_relationships(_, _, _)
_infer_task_role_relationships(map, tasks, roles) ==
    IF tasks = << >> THEN map
    ELSE _infer_task_role_relationships(
            IF Head(tasks).task_id \notin DOMAIN map /\ InferredRole(Head(tasks), roles) # 0
            THEN DictSet(map, Head(tasks).task_id, InferredRole(Head(tasks), roles))
            ELSE map,
            Tail(tasks), roles)

\* _infer_task_process_relationships: the tasks afterwards
_infer_task_process_relationships(tasks, processes) ==
    IF processes = << >> THEN tasks
    ELSE [k \in 1..Len(tasks) |->
            IF tasks[k].process_id = 0
            THEN [tasks[k] EXCEPT !.process_id = processes[1].proc_id]
            ELSE tasks[k]]

-----------------------------------------------------------------------------
(* The workflow: PDF2BPMNWorkflow.extract_candidates and normalize_entities *)

\* the similarity scores the embedding oracle answers with for a node of the
\* store, in hundredths: below the review threshold, on it, on the merge threshold
Scores == {79, 80, 90}

\* a node an earlier run left in the graph store, which has an id of its own
OldNode(kind) == [kind |-> kind, id |-> 101]

\* what the similarity lookup of one entity of a kind can do: with no node of
\* the kind in the store the full-text search returns nothing; otherwise it
\* returns some of the nodes, each with a similarity, or the embedding raises
RECURSIVE MatchLists(_)
MatchLists(ids) ==
    {<< >>} \cup
    UNION {{<<[node |-> i, similarity |-> sc]>> \o rest :
               sc \in Scores, rest \in MatchLists({j \in ids : j > i})} : i \in ids}

OldIds(nodes, kind) == {n.id : n \in {m \in nodes : m.kind = kind /\ m.id > 100}}

Lookups(nodes, kind) ==
    IF OldIds(nodes, kind) = {} THEN {Matched(<< >>)}
    ELSE {Raised} \cup {Matched(ms) : ms \in MatchLists(OldIds(nodes, kind))}

\* the lookups of a list of entities: one per entity, the one of an entity
\* that is not looked up being immaterial (fixed to an empty search result)
LookupLists(nodes, kind, entities_) ==
    {lookups \in [1..Len(entities_) -> Lookups(nodes, kind)] :
        \A k \in 1..Len(entities_) :
            _deduplicate_entities(entities_, lookups).log[k] = NotAsked
                => lookups[k] = Matched(<< >>)}

NoEntities == [processes |-> << >>, roles |-> << >>, tasks |-> << >>,
               gateways |-> << >>, events |-> << >>,
               task_role_map |-> EmptyDict, task_process_map |-> EmptyDict,
               sequence_flows |-> << >>]

\* ExtractedEntities(): every list empty
NoCandidates == [processes |-> << >>, roles |-> << >>, tasks |-> << >>,
                 gateways |-> << >>, events |-> << >>,
                 task_role_mappings |-> << >>, task_process_mappings |-> << >>,
                 sequence_flows |-> << >>]

NoLog == [Process |-> << >>, Task |-> << >>, Role |-> << >>]

\* no request answered yet
NoResponse == [code |-> 0, job_id |-> 0]

\* the state after PDF2BPMNWorkflow() and the ingestion steps: empty maps and
\* registries, the workflow about to extract candidates, and a graph store that
\* is empty or holds a node of one of the kinds
InitWith(kinds) ==
    /\ process_name_to_id = EmptyDict
    /\ role_name_to_id = EmptyDict
    /\ task_role_map = EmptyDict
    /\ task_process_map = EmptyDict
    /\ sequence_flows = << >>
    /\ all_processes = << >>
    /\ all_tasks = << >>
    /\ all_roles = << >>
    /\ all_gateways = << >>
    /\ all_events = << >>
    /\ extracted = NoCandidates
    /\ entities = NoEntities
    /\ state = [processes |-> << >>, tasks |-> << >>, roles |-> << >>,
                gateways |-> << >>, events |-> << >>,
                open_questions |-> << >>, resolved_questions |-> << >>,
                current_question |-> 0, user_answer |-> None,
                skills |-> << >>, error |-> << >>,
                current_step |-> "extract_candidates"]
    /\ \E nodes \in {{}} \cup {{OldNode(kind)} : kind \in kinds} :
          store = [nodes |-> nodes, has_task |-> {}, performed_by |-> {}, next |-> EmptyBag,
                   rank |-> << >>, ambiguities |-> << >>]
    /\ sim_log = NoLog
    /\ sim_in = << >>
    /\ sim_out = find_similar_entity(<< >>)
    /\ section_index = 0
    /\ oracle_errors = 0
    /\ ambiguities = << >>
    /\ exception = NoException
    /\ existing_context = Empty
    /\ bpmn_in = NoArguments
    /\ bpmn_xml = << >>
    /\ upload_dir = EmptyDict
    /\ job_progress = << >>
    /\ job_runs = << >>
    /\ job_streams = << >>
    /\ http_response = NoResponse
    /\ merge_in = [existing |-> << >>, new |-> << >>]
    /\ merge_out = << >>
    /\ output_dir = EmptyDict

\* the registries after a chunk: every process and role of the chunk is
\* entered under its lower-cased name
RECURSIVE RegisterRoles(_, _)
RegisterRoles(reg, roles) ==
    IF roles = << >> THEN reg
    ELSE RegisterRoles(DictSet(reg, Lower(Head(roles).name), Head(roles).role_id), Tail(roles))

\* one iteration of the section loop of extract_candidates: the oracle answers
\* ex for the section, which is converted and accumulated
ExtractSectionWithin(ex, max_tasks) ==
    /\ state.current_step = "extract_candidates"
    /\ exception = NoException
    /\ section_index < MaxSections
    /\ existing_context' = _build_context(None, None)
    /\ Len(all_processes) + Len(ex.processes) <= MaxProcesses
    /\ Len(all_roles) + Len(ex.roles) <= MaxRoles
    /\ Len(all_tasks) + Len(ex.tasks) <= max_tasks
    /\ Len(all_gateways) + Len(ex.gateways) <= MaxGateways
    /\ Len(all_events) + Len(ex.events) <= MaxEvents
    /\ extracted' = ex
    /\ exception' = ConvertException(ex, role_name_to_id)
    /\ IF ConvertException(ex, role_name_to_id) # NoException
       THEN UNCHANGED <<section_index, entities, all_processes, all_tasks, all_roles,
                        all_gateways, all_events, task_role_map, task_process_map,
                        sequence_flows, process_name_to_id, role_name_to_id>>
       ELSE
       LET e == convert_to_entities(ex, process_name_to_id, role_name_to_id,
                                    Len(all_processes), Len(all_roles), Len(all_tasks),
                                    Len(all_gateways), Len(all_events))
       IN /\ section_index' = section_index + 1
          /\ entities' = e
          /\ all_processes' = all_processes \o e.processes
          /\ all_tasks' = all_tasks \o e.tasks
          /\ all_roles' = all_roles \o e.roles
          /\ all_gateways' = all_gateways \o e.gateways
          /\ all_events' = all_events \o e.events
          /\ task_role_map' = DictUpdate(task_role_map, e.task_role_map)
          /\ task_process_map' = DictUpdate(task_process_map, e.task_process_map)
          /\ sequence_flows' = sequence_flows \o e.sequence_flows
          /\ process_name_to_id' = RegisterProcesses(process_name_to_id, e.processes)
          /\ role_name_to_id' = RegisterRoles(role_name_to_id, e.roles)
    /\ UNCHANGED <<state, store, sim_log, sim_in, sim_out, ambiguities, bpmn_in, bpmn_xml,
                   output_dir,
                   merge_in, merge_out,
                   upload_dir, job_progress, job_runs, job_streams, http_response>>

ExtractSection(ex) == ExtractSectionWithin(ex, MaxTasks)

\* the end of extract_candidates: the accumulated lists become the state's
ExtractReturn ==
    /\ state.current_step = "extract_candidates"
    /\ exception = NoException
    /\ state' = [state EXCEPT !.processes = all_processes,
                              !.tasks = all_tasks,
                              !.roles = all_roles,
                              !.gateways = all_gateways,
                              !.events = all_events,
                              !.current_step = "normalize_entities"]
    /\ UNCHANGED <<process_name_to_id, role_name_to_id, task_role_map, task_process_map,
                   sequence_flows, all_processes, all_tasks, all_roles, all_gateways,
                   all_events, extracted, entities, store, sim_log, sim_in, sim_out,
                   section_index, oracle_errors, ambiguities, exception, existing_context,
                   bpmn_in, bpmn_xml,
                   output_dir,
                   merge_in, merge_out,
                   upload_dir, job_progress, job_runs, job_streams, http_response>>

(* The reducer of the workflow graph's state lists: merge_list             *)

\* getattr(item, 'id', None) is not None
HasId(item) == "id" \in DOMAIN item

\* existing_ids: the ids of the items, str(i) (here -(i+1), which no id is)
\* for the i-th item (from 0) when it has no id
ExistingIds(existing) ==
    {IF HasId(existing[i]) THEN existing[i].id ELSE 0 - i : i \in 1..Len(existing)}

\* an id that is taken although it was seen before
IsNewIdAlways(item_id, existing_ids) == item_id # 0

\* item_id and item_id not in existing_ids (the empty id, 0, is falsy)
IsNewId(item_id, existing_ids) == item_id # 0 /\ item_id \notin existing_ids

\* the loop of merge_list from the k-th item of new on
RECURSIVE MergeFrom(_, _, _, _)
MergeFrom(result, existing_ids, new, k) ==
    IF k > Len(new) THEN result
    ELSE IF ~HasId(new[k]) THEN MergeFrom(Append(result, new[k]), existing_ids, new, k + 1)
    ELSE IF IsNewId(new[k].id, existing_ids)
         THEN MergeFrom(Append(result, new[k]), existing_ids \cup {new[k].id}, new, k + 1)
    ELSE MergeFrom(result, existing_ids, new, k + 1)

\* merge_list(existing, new)
merge_list(existing, new) == MergeFrom(existing, ExistingIds(existing), new, 1)

\* the ids the objects of a state list can have
MaxItems == 3

\* the longest list a node returns
MaxNew == 2

\* a node of the compiled graph returns new for a state list, which the graph
\* replaces by merge_list(existing, new)
ReducerStep(new) ==
    /\ merge_in' = [existing |-> merge_out, new |-> new]
    /\ merge_out' = merge_list(merge_out, new)
    /\ UNCHANGED <<state, process_name_to_id, role_name_to_id, task_role_map,
                   task_process_map, sequence_flows, all_processes, all_tasks, all_roles,
                   all_gateways, all_events, extracted, entities, store, sim_log, sim_in,
                   sim_out, section_index, oracle_errors, ambiguities, exception,
                   existing_context, bpmn_in, bpmn_xml, output_dir,
                   upload_dir, job_progress, job_runs, job_streams, http_response>>

\* the id of an entity of a state list: BaseEntity.id, a uuid drawn when the
\* object is made, as its task_id, proc_id or role_id is; the model draws one
\* number for both (a question is its amb_id in the state lists)
EntityId(item, kind) ==
    CASE kind = "Process" -> item.proc_id
      [] kind = "Task" -> item.task_id
      [] kind = "Role" -> item.role_id
      [] OTHER -> item

\* the state list as the reducer sees it when the node has returned: the
\* objects the node changed in place are the objects of the list
Aliased(existing, new, kind) ==
    [k \in 1..Len(existing) |->
        IF \E j \in 1..Len(new) : EntityId(new[j], kind) = EntityId(existing[k], kind)
        THEN new[CHOOSE j \in 1..Len(new) : EntityId(new[j], kind) = EntityId(existing[k], kind)]
        ELSE existing[k]]

\* a state list after a node of the compiled graph returned new for it
Reduced(existing, new, kind) ==
    LET boxed(l) == [k \in 1..Len(l) |-> [id |-> EntityId(l[k], kind), item |-> l[k]]]
        merged == merge_list(boxed(Aliased(existing, new, kind)), boxed(new))
    IN [k \in 1..Len(merged) |-> merged[k].item]

\* a state list after state.update(result), as the UI and process_document
\* run the nodes
Replaced(existing, new, kind) == new

\* a state list after a node returned new for it, the caller being the
\* compiled graph (reducer "merge_list") or code that calls state.update
Updated(reducer, existing, new, kind) ==
    IF reducer = "merge_list" THEN Reduced(existing, new, kind) ELSE Replaced(existing, new, kind)

\* normalize_entities of a workflow with the maps and flows given, on the
\* state state_ and the graph store store_, the similarity lookups answering
\* as lookupsP, lookupsT and lookupsR and the store ordering tasks of equal
\* order by tie: the lists it returns, the workflow's task_role_map, the store
\* and the answers of the lookups
normalize_entities(state_, store_, task_role_map_, task_process_map_, sequence_flows_, lookupsP, lookupsT, lookupsR, tie) ==
    LET dedupP == _deduplicate_entities(state_.processes, lookupsP)
        dedupT == _deduplicate_entities(state_.tasks, lookupsT)
        dedupR == _deduplicate_entities(state_.roles, lookupsR)
        unique_processes == dedupP.unique
        unique_tasks == dedupT.unique
        unique_roles == dedupR.unique
        nodes1 == CreateNodes(CreateNodes(CreateNodes(CreateNodes(CreateNodes(store_.nodes,
                     "Process", Ids(unique_processes, "proc_id")),
                     "Task", Ids(unique_tasks, "task_id")),
                     "Role", Ids(unique_roles, "role_id")),
                     "Gateway", Ids(state_.gateways, "gateway_id")),
                     "Event", Ids(state_.events, "event_id"))
        has_task1 == store_.has_task
                       \cup CreateTaskEdges(nodes1, unique_tasks)
                       \cup MapEdges(nodes1, task_process_map_, "Process", "Task")
        next1 == _create_sequence_flows(nodes1, has_task1, store_.next, sequence_flows_,
                                        unique_tasks, unique_processes, tie)
        role_map == _infer_task_role_relationships(task_role_map_, unique_tasks, unique_roles)
        tasks1 == _infer_task_process_relationships(unique_tasks, unique_processes)
        inferred == {k \in 1..Len(tasks1) : unique_tasks[k].process_id = 0 /\ tasks1[k].process_id # 0}
    IN [sim_log |-> [Process |-> dedupP.log, Task |-> dedupT.log, Role |-> dedupR.log],
        task_role_map |-> role_map,
        store |-> [nodes |-> nodes1,
                   has_task |-> has_task1 \cup {<<tasks1[k].process_id, tasks1[k].task_id>> : k \in inferred},
                   performed_by |-> store_.performed_by
                                      \cup MapEdges(nodes1, role_map, "Role", "Task"),
                   next |-> next1,
                   rank |-> tie,
                   ambiguities |-> store_.ambiguities],
        processes |-> unique_processes,
        tasks |-> tasks1,
        roles |-> unique_roles]

\* the node normalize_entities; the lists it returns are put into the state
\* by the caller's reducer
NormalizeEntitiesUnder(reducer, lookupsP, lookupsT, lookupsR, tie) ==
    /\ state.current_step = "normalize_entities"
    /\ LET result == normalize_entities(state, store, task_role_map, task_process_map,
                                        sequence_flows, lookupsP, lookupsT, lookupsR, tie)
       IN /\ sim_log' = result.sim_log
          /\ task_role_map' = result.task_role_map
          /\ store' = result.store
          /\ state' = [state EXCEPT !.processes = Updated(reducer, @, result.processes, "Process"),
                                    !.tasks = Updated(reducer, @, result.tasks, "Task"),
                                    !.roles = Updated(reducer, @, result.roles, "Role"),
                                    !.current_step = "detect_ambiguities"]
    /\ UNCHANGED <<process_name_to_id, role_name_to_id, task_process_map, sequence_flows,
                   all_processes, all_tasks, all_roles, all_gateways, all_events,
                   extracted, entities, sim_in, sim_out, section_index, oracle_errors,
                   ambiguities, exception, existing_context, bpmn_in, bpmn_xml,
                   output_dir,
                   merge_in, merge_out,
                   upload_dir, job_progress, job_runs, job_streams, http_response>>

\* normalize_entities run by process_document
NormalizeEntities(lookupsP, lookupsT, lookupsR, tie) ==
    NormalizeEntitiesUnder("update", lookupsP, lookupsT, lookupsR, tie)

\* the orders in which the store can return the tasks when it orders them by
\* t.order: tasks of equal order come in any order (one order is kept when no
\* process is there to have its tasks ordered by the store)
StoreOrders(tasks, processes) ==
    IF processes = << >> THEN {[k \in 1..Len(tasks) |-> k]}
    ELSE {tie \in Permutations(1..Len(tasks)) :
             \A i, j \in 1..Len(tasks) : tasks[i].order < tasks[j].order => tie[i] < tie[j]}

\* normalize_entities under every answer of the similarity oracle
Normalize ==
    \E lookupsP \in LookupLists(store.nodes, "Process", state.processes),
       lookupsT \in LookupLists(store.nodes, "Task", state.tasks),
       lookupsR \in LookupLists(store.nodes, "Role", state.roles),
       tie \in StoreOrders(state.tasks, state.processes) :
        NormalizeEntities(lookupsP, lookupsT, lookupsR, tie)

\* normalize_entities as a node of the compiled graph
GraphNormalize ==
    \E lookupsP \in LookupLists(store.nodes, "Process", state.processes),
       lookupsT \in LookupLists(store.nodes, "Task", state.tasks),
       lookupsR \in LookupLists(store.nodes, "Role", state.roles),
       tie \in StoreOrders(state.tasks, state.processes) :
        NormalizeEntitiesUnder("merge_list", lookupsP, lookupsT, lookupsR, tie)

-----------------------------------------------------------------------------
(* The human-in-the-loop steps: detect_ambiguities, ask_user,              *)
(* apply_user_answer, and the questions section of the UI                  *)

\* the two options every question ends with, "add a new role" and
\* "unassigned" (Korean texts in the source, which lower() leaves as they are)
NewRoleOption == <<"+">>
UnassignedOption == <<"?">>

\* tasks_without_roles[:10]
QuestionLimit == 10

Min(a, b) == IF a <= b THEN a ELSE b

\* tasks_without_roles: the tasks that are no key of task_role_map
TasksWithoutRoles(tasks, map) == SelectSeq(tasks, LAMBDA t : t.task_id \notin DOMAIN map)

\* tasks_without_roles[:10]
TasksToAsk(tasks_without_roles) ==
    SubSeq(tasks_without_roles, 1, Min(QuestionLimit, Len(tasks_without_roles)))

\* the role names alone
RoleNamesOnly(roles) == [k \in 1..Len(roles) |-> roles[k].name]

\* role_names + [the two escape options]
QuestionOptions(roles) ==
    [k \in 1..Len(roles) |-> roles[k].name] \o <<NewRoleOption, UnassignedOption>>

\* the questions of detect_ambiguities; amb ids are fresh: base + 1, ...
Questions(tasks, roles, map, base) ==
    IF TasksWithoutRoles(tasks, map) # << >> /\ roles # << >>
    THEN [k \in 1..Len(TasksToAsk(TasksWithoutRoles(tasks, map))) |->
            [amb_id |-> base + k,
             entity_type |-> "Task",
             entity_id |-> TasksToAsk(TasksWithoutRoles(tasks, map))[k].task_id,
             options |-> QuestionOptions(roles),
             status |-> "open",
             answer |-> None]]
    ELSE << >>

\* the questions of a list whose status is OPEN
OpenQuestions(questions, heap) == SelectSeq(questions, LAMBDA q : heap[q].status = "open")

\* detect_ambiguities, which the workflow runs after normalize_entities
DetectAmbiguities ==
    /\ state.current_step = "detect_ambiguities"
    /\ ambiguities = << >>
    /\ LET questions == Questions(state.tasks, state.roles, task_role_map, Len(ambiguities))
       IN /\ ambiguities' = ambiguities \o questions
          /\ store' = [store EXCEPT !.ambiguities =
                          @ \o [k \in 1..Len(questions) |->
                                  [status |-> questions[k].status, answer |-> questions[k].answer]]]
          /\ state' = [state EXCEPT
                          !.open_questions = [k \in 1..Len(questions) |-> questions[k].amb_id],
                          !.current_step = IF questions # << >> THEN "ask_user"
                                           ELSE "generate_skills"]
    /\ UNCHANGED <<process_name_to_id, role_name_to_id, task_role_map, task_process_map,
                   sequence_flows, all_processes, all_tasks, all_roles, all_gateways,
                   all_events, extracted, entities, sim_log, sim_in, sim_out, section_index,
                   oracle_errors, exception, existing_context, bpmn_in, bpmn_xml,
                   output_dir,
                   merge_in, merge_out,
                   upload_dir, job_progress, job_runs, job_streams, http_response>>

\* ask_user, which the workflow runs after detect_ambiguities found questions
\* (should_ask_user) and after apply_user_answer while a question is open
\* (has_more_questions)
AskUser ==
    /\ \/ state.current_step = "ask_user"
       \/ /\ state.current_step \in {"detect_ambiguities", "generate_skills"}
          /\ OpenQuestions(state.open_questions, ambiguities) # << >>
    /\ LET open_questions == OpenQuestions(state.open_questions, ambiguities)
       IN state' = IF open_questions # << >>
                   THEN [state EXCEPT !.current_question = open_questions[1],
                                      !.current_step = "waiting_for_user"]
                   ELSE [state EXCEPT !.current_question = 0,
                                      !.current_step = "generate_skills"]
    /\ UNCHANGED <<process_name_to_id, role_name_to_id, task_role_map, task_process_map,
                   sequence_flows, all_processes, all_tasks, all_roles, all_gateways,
                   all_events, extracted, entities, store, sim_log, sim_in, sim_out,
                   section_index, oracle_errors, ambiguities, exception, existing_context,
                   bpmn_in, bpmn_xml,
                   output_dir,
                   merge_in, merge_out,
                   upload_dir, job_progress, job_runs, job_streams, http_response>>

\* a question answered but left open
ResolveKeepingOpen(amb, answer) == [amb EXCEPT !.answer = answer]

\* current_question.status = RESOLVED; current_question.answer = user_answer
Resolve(amb, answer) == [amb EXCEPT !.status = "resolved", !.answer = answer]

\* the answer as it is
RawAnswer(user_answer) == user_answer

\* role_name = user_answer.lower()
RoleKeyOfAnswer(user_answer) == Lower(user_answer)

\* an answer that is not applied to the map
UnansweredTaskRoleMap(map, entity_id, role_name, registry) == map

\* task_role_map after the answer is applied: the task is mapped to the role
\* registered under role_name, if there is one
AnswerTaskRoleMap(map, entity_id, role_name, registry) ==
    IF role_name \in DOMAIN registry THEN DictSet(map, entity_id, registry[role_name])
    ELSE map

\* link_task_to_role: PERFORMED_BY is merged when the task and the role are nodes
LinkTaskToRole(performed_by, nodes, task_id, role_id) ==
    IF HasNode(nodes, "Task", task_id) /\ HasNode(nodes, "Role", role_id)
    THEN performed_by \cup {<<role_id, task_id>>}
    ELSE performed_by

\* the list without the question amb_id
WithoutQuestion(questions, amb_id) == SelectSeq(questions, LAMBDA q : q # amb_id)

\* apply_user_answer, which the workflow runs after ask_user, the caller having
\* put user_answer into the state
ApplyUserAnswerUnder(reducer, user_answer) ==
    /\ state.current_step = "waiting_for_user"
    /\ LET current_question == state.current_question
           role_name == RoleKeyOfAnswer(user_answer)
       IN IF current_question # 0 /\ user_answer # None /\ user_answer # Empty
          THEN /\ ambiguities' = [ambiguities EXCEPT
                                    ![current_question] = Resolve(@, user_answer)]
               /\ task_role_map' =
                     IF ambiguities[current_question].entity_type = "Task"
                     THEN AnswerTaskRoleMap(task_role_map, ambiguities[current_question].entity_id,
                                            role_name, role_name_to_id)
                     ELSE task_role_map
               /\ store' = [store EXCEPT
                     !.ambiguities[current_question] = [status |-> "resolved", answer |-> user_answer],
                     !.performed_by =
                         IF /\ ambiguities[current_question].entity_type = "Task"
                            /\ role_name \in DOMAIN role_name_to_id
                         THEN LinkTaskToRole(@, store.nodes, ambiguities[current_question].entity_id,
                                             role_name_to_id[role_name])
                         ELSE @]
               /\ state' = [state EXCEPT
                     !.resolved_questions = Updated(reducer, Append(@, current_question),
                                                    Append(@, current_question), "Ambiguity"),
                     !.open_questions = Updated(reducer, @, WithoutQuestion(@, current_question),
                                                "Ambiguity"),
                     !.current_question = 0,
                     !.user_answer = None,
                     !.current_step = "detect_ambiguities"]
          ELSE /\ state' = [state EXCEPT !.user_answer = user_answer,
                                         !.current_step = "generate_skills"]
               /\ UNCHANGED <<ambiguities, task_role_map, store>>
    /\ UNCHANGED <<process_name_to_id, role_name_to_id, task_process_map, sequence_flows,
                   all_processes, all_tasks, all_roles, all_gateways, all_events,
                   extracted, entities, sim_log, sim_in, sim_out, section_index, oracle_errors,
                   exception, existing_context, bpmn_in, bpmn_xml,
                   output_dir,
                   merge_in, merge_out,
                   upload_dir, job_progress, job_runs, job_streams, http_response>>

\* apply_user_answer called on a state that is updated with what it returns
ApplyUserAnswer(user_answer) == ApplyUserAnswerUnder("update", user_answer)

\* apply_user_answer as a node of the compiled graph
GraphApplyUserAnswer(user_answer) == ApplyUserAnswerUnder("merge_list", user_answer)

\* the answers a caller can put into the state for the current question: one
\* of its options, some other text, the empty text, or none
GarbageAnswer == <<"x">>

UserAnswers(current_question) ==
    (IF current_question = 0 THEN {}
     ELSE {ambiguities[current_question].options[k] :
              k \in 1..Len(ambiguities[current_question].options)})
        \cup {GarbageAnswer, Empty, None}

\* the confirm button of render_questions_section: the first open question of
\* the state detect_ambiguities returned is resolved with the option chosen
UiConfirm(answer) ==
    /\ state.current_step = "ask_user"
    /\ OpenQuestions(state.open_questions, ambiguities) # << >>
    /\ LET current_q == OpenQuestions(state.open_questions, ambiguities)[1]
       IN /\ answer \in {ambiguities[current_q].options[k] :
                            k \in 1..Len(ambiguities[current_q].options)}
          /\ ambiguities' = [ambiguities EXCEPT ![current_q] = Resolve(@, answer)]
          /\ state' = [state EXCEPT !.resolved_questions = Append(@, current_q),
                                    !.open_questions = WithoutQuestion(@, current_q)]
    /\ UNCHANGED <<process_name_to_id, role_name_to_id, task_role_map, task_process_map,
                   sequence_flows, all_processes, all_tasks, all_roles, all_gateways,
                   all_events, extracted, entities, store, sim_log, sim_in, sim_out,
                   section_index, oracle_errors, exception, existing_context,
                   bpmn_in, bpmn_xml,
                   output_dir,
                   merge_in, merge_out,
                   upload_dir, job_progress, job_runs, job_streams, http_response>>

\* the skip button: the first open question leaves the list as it is
UiSkip ==
    /\ state.current_step = "ask_user"
    /\ OpenQuestions(state.open_questions, ambiguities) # << >>
    /\ state' = [state EXCEPT !.open_questions =
                    WithoutQuestion(@, OpenQuestions(state.open_questions, ambiguities)[1])]
    /\ UNCHANGED <<process_name_to_id, role_name_to_id, task_role_map, task_process_map,
                   sequence_flows, all_processes, all_tasks, all_roles, all_gateways,
                   all_events, extracted, entities, store, sim_log, sim_in, sim_out,
                   section_index, oracle_errors, ambiguities, exception, existing_context,
                   bpmn_in, bpmn_xml,
                   output_dir,
                   merge_in, merge_out,
                   upload_dir, job_progress, job_runs, job_streams, http_response>>

-----------------------------------------------------------------------------
(* The generation steps: generate_skills, generate_dmn, assemble_bpmn,     *)
(* validate_consistency, export_artifacts                                  *)

\* generate_skills: a skill per agent task, linked to the role the workflow's
\* task_role_map gives the task (0 for none)
generate_skills(state_, task_role_map_) ==
    LET agent_tasks == SelectSeq(state_.tasks, LAMBDA t : t.task_type = "agent")
    IN [state_ EXCEPT
          !.skills = [k \in 1..Len(agent_tasks) |->
                        [task_id |-> agent_tasks[k].task_id,
                         role_id |-> Get(task_role_map_, agent_tasks[k].task_id, 0)]],
          !.current_step = "generate_dmn"]

\* generate_dmn: no decision is extracted in this model, so no table is written
generate_dmn(state_) == [state_ EXCEPT !.current_step = "assemble_bpmn"]

\* the name of the process assemble_bpmn makes up when there is none
ExtractedProcessName ==
    <<"E", "x", "t", "r", "a", "c", "t", "e", "d", " ", "P", "r", "o", "c", "e", "s", "s">>

\* the file assemble_bpmn saves the document under
BpmnFile == "process.bpmn"

\* the arguments assemble_bpmn calls generate with
AssembleArguments(main_process, process_tasks, state_, task_role_map_) ==
    [process |-> main_process, tasks |-> process_tasks, roles |-> state_.roles,
     gateways |-> state_.gateways, events |-> state_.events, task_role_map |-> task_role_map_]

\* assemble_bpmn of a workflow whose task_role_map is task_role_map_: the first
\* process (made up with the id fresh_id when there is none), its tasks and
\* those without a process, which are given it; the state afterwards, the
\* arguments of generate and the document
assemble_bpmn(state_, task_role_map_, fresh_id) ==
    LET processes == IF state_.processes = << >>
                     THEN <<[proc_id |-> fresh_id, name |-> ExtractedProcessName,
                             description |-> Empty]>>
                     ELSE state_.processes
        main_process == processes[1]
        chosen(t) == t.process_id = main_process.proc_id \/ t.process_id = 0
        tasks == [k \in 1..Len(state_.tasks) |->
                    IF chosen(state_.tasks[k])
                    THEN [state_.tasks[k] EXCEPT !.process_id = main_process.proc_id]
                    ELSE state_.tasks[k]]
        process_tasks == SelectSeq(tasks, LAMBDA t : t.process_id = main_process.proc_id)
        args == AssembleArguments(main_process, process_tasks, state_, task_role_map_)
    IN [state |-> [state_ EXCEPT !.tasks = tasks, !.current_step = "validate_consistency"],
        args |-> args,
        bpmn_xml |-> generate(args.process, args.tasks, args.roles, args.gateways,
                              args.events, args.task_role_map)]

\* validate_consistency: the warnings it joins into state["error"]
validate_consistency(state_, task_role_map_) ==
    [state_ EXCEPT
        !.error = (IF /\ state_.tasks # << >>
                      /\ 10 * Cardinality(DOMAIN task_role_map_) < 3 * Len(state_.tasks)
                   THEN <<"tasks_without_role">> ELSE << >>)
                  \o (IF state_.roles = << >> /\ state_.tasks # << >>
                      THEN <<"no_roles">> ELSE << >>),
        !.current_step = "export_artifacts"]

\* export_artifacts
export_artifacts(state_) == [state_ EXCEPT !.current_step = "completed"]

\* an id no process of the run has
FreshProcessId == Len(all_processes) + 1

\* the node generate_skills, which the workflow runs when no question is open
\* (should_ask_user, has_more_questions)
GenerateSkills ==
    /\ \/ state.current_step = "generate_skills"
       \/ state.current_step = "detect_ambiguities" /\ state.resolved_questions # << >>
    /\ OpenQuestions(state.open_questions, ambiguities) = << >>
    /\ state' = generate_skills(state, task_role_map)
    /\ UNCHANGED <<process_name_to_id, role_name_to_id, task_role_map, task_process_map,
                   sequence_flows, all_processes, all_tasks, all_roles, all_gateways,
                   all_events, extracted, entities, store, sim_log, sim_in, sim_out,
                   section_index, oracle_errors, ambiguities, exception, existing_context,
                   bpmn_in, bpmn_xml, output_dir,
                   merge_in, merge_out,
                   upload_dir, job_progress, job_runs, job_streams, http_response>>

\* the node generate_dmn
GenerateDmn ==
    /\ state.current_step = "generate_dmn"
    /\ state' = generate_dmn(state)
    /\ UNCHANGED <<process_name_to_id, role_name_to_id, task_role_map, task_process_map,
                   sequence_flows, all_processes, all_tasks, all_roles, all_gateways,
                   all_events, extracted, entities, store, sim_log, sim_in, sim_out,
                   section_index, oracle_errors, ambiguities, exception, existing_context,
                   bpmn_in, bpmn_xml, output_dir,
                   merge_in, merge_out,
                   upload_dir, job_progress, job_runs, job_streams, http_response>>

\* the node assemble_bpmn: the document is generated and saved
AssembleBpmn ==
    /\ state.current_step = "assemble_bpmn"
    /\ LET assembled == assemble_bpmn(state, task_role_map, FreshProcessId)
       IN /\ state' = assembled.state
          /\ bpmn_in' = assembled.args
          /\ bpmn_xml' = assembled.bpmn_xml
          /\ output_dir' = DictSet(output_dir, BpmnFile, assembled.bpmn_xml)
    /\ UNCHANGED <<process_name_to_id, role_name_to_id, task_role_map, task_process_map,
                   sequence_flows, all_processes, all_tasks, all_roles, all_gateways,
                   all_events, extracted, entities, store, sim_log, sim_in, sim_out,
                   section_index, oracle_errors, ambiguities, exception, existing_context,
                   merge_in, merge_out,
                   upload_dir, job_progress, job_runs, job_streams, http_response>>

\* the node validate_consistency
ValidateConsistency ==
    /\ state.current_step = "validate_consistency"
    /\ state' = validate_consistency(state, task_role_map)
    /\ UNCHANGED <<process_name_to_id, role_name_to_id, task_role_map, task_process_map,
                   sequence_flows, all_processes, all_tasks, all_roles, all_gateways,
                   all_events, extracted, entities, store, sim_log, sim_in, sim_out,
                   section_index, oracle_errors, ambiguities, exception, existing_context,
                   bpmn_in, bpmn_xml, output_dir,
                   merge_in, merge_out,
                   upload_dir, job_progress, job_runs, job_streams, http_response>>

\* the node export_artifacts, after which the run is at END
ExportArtifacts ==
    /\ state.current_step = "export_artifacts"
    /\ state' = export_artifacts(state)
    /\ UNCHANGED <<process_name_to_id, role_name_to_id, task_role_map, task_process_map,
                   sequence_flows, all_processes, all_tasks, all_roles, all_gateways,
                   all_events, extracted, entities, store, sim_log, sim_in, sim_out,
                   section_index, oracle_errors, ambiguities, exception, existing_context,
                   bpmn_in, bpmn_xml, output_dir,
                   merge_in, merge_out,
                   upload_dir, job_progress, job_runs, job_streams, http_response>>

\* render_continue_processing, which the UI runs once no question of the
\* state is open: a new PDF2BPMNWorkflow(), whose maps are empty, runs the
\* generation steps on the state of the session
UiContinueProcessing ==
    /\ state.current_step = "ask_user"
    /\ OpenQuestions(state.open_questions, ambiguities) = << >>
    /\ LET workflow == [task_role_map |-> EmptyDict]
           state1 == generate_dmn(generate_skills(state, workflow.task_role_map))
           assembled == assemble_bpmn(state1, workflow.task_role_map, FreshProcessId)
       IN /\ state' = export_artifacts(validate_consistency(assembled.state,
                                                            workflow.task_role_map))
          /\ bpmn_in' = assembled.args
          /\ bpmn_xml' = assembled.bpmn_xml
          /\ output_dir' = DictSet(output_dir, BpmnFile, assembled.bpmn_xml)
    /\ UNCHANGED <<process_name_to_id, role_name_to_id, task_role_map, task_process_map,
                   sequence_flows, all_processes, all_tasks, all_roles, all_gateways,
                   all_events, extracted, entities, store, sim_log, sim_in, sim_out,
                   section_index, oracle_errors, ambiguities, exception, existing_context,
                   merge_in, merge_out,
                   upload_dir, job_progress, job_runs, job_streams, http_response>>

-----------------------------------------------------------------------------
(* The candidates the oracle answers with *)

SeqsUpTo(S, n) == UNION {[1..m -> S] : m \in 0..n}

ProcessNames == {<<"p">>, <<"P", " ">>, <<"q">>}
RoleNames == {<<"m", "g", "r">>, <<"M", "g", "r">>, <<"m", "g", "r", " ">>}

\* a field bag has a field or lacks it
Optional(field, values) == {<< >>} \cup {field :> v : v \in values}

ProcessBags == {[name |-> n] : n \in ProcessNames}
RoleBags == {[name |-> n] : n \in RoleNames}
GatewayBags == Optional("parent_process", {<<"p">>})

\* a chunk about processes: processes, and a task naming a parent process or not
ProcessChunks ==
    {[NoCandidates EXCEPT !.processes = ps, !.tasks = ts] :
        ps \in SeqsUpTo(ProcessBags, MaxProcesses),
        ts \in SeqsUpTo({[name |-> <<"a">>] @@ pp :
                            pp \in Optional("parent_process", {<<"p">>, <<"q">>})}, 1)}

\* a chunk with a gateway or an event
GatewayChunks ==
    {[NoCandidates EXCEPT !.processes = ps, !.gateways = gs, !.events = es] :
        ps \in SeqsUpTo({[name |-> <<"p">>]}, 1),
        gs \in SeqsUpTo(GatewayBags, MaxGateways),
        es \in SeqsUpTo(GatewayBags, MaxEvents)}

\* a chunk that only names processes, or only roles, in two spellings of one
\* name
NameChunks ==
    {[NoCandidates EXCEPT !.processes = ps] :
        ps \in SeqsUpTo({[name |-> <<"p">>], [name |-> <<"P", " ">>]}, MaxProcesses)}
    \cup
    {[NoCandidates EXCEPT !.roles = rs] :
        rs \in SeqsUpTo({[name |-> <<"m", "g", "r">>], [name |-> <<"M", "g", "r", " ">>]}, MaxRoles)}

\* a chunk about roles: roles, and a task that names its performer, or has
\* the role in its name, or neither
RoleChunks ==
    {[NoCandidates EXCEPT !.roles = rs, !.tasks = ts] :
        rs \in SeqsUpTo(RoleBags, MaxRoles),
        ts \in SeqsUpTo({[name |-> <<"a">>] @@ pr :
                            pr \in Optional("performer_role", {<<"m", "g", "r">>})}
                        \cup {[name |-> <<"m", "g", "r", " ", "a">>]}, 1)}

\* a chunk about a sequence of tasks: tasks with orders and next_task hints,
\* and explicit flows
FlowTaskBags ==
    {[name |-> n] @@ o @@ nx :
        n \in {<<"a">>, <<"b">>},
        o \in Optional("order", {[type |-> "int", val |-> 2]}),
        nx \in Optional("next_task", {<<"b">>})}

FlowBags == {[from_task |-> <<"a">>, to_task |-> <<"b">>]}

FlowChunks ==
    {[NoCandidates EXCEPT !.tasks = ts, !.sequence_flows = fs] :
        ts \in SeqsUpTo(FlowTaskBags, MaxChunkTasks),
        fs \in SeqsUpTo(FlowBags, MaxFlows)}

\* a chunk about the steps of a process: the process or not, steps of different
\* names that state their order and name the process, and explicit flows
StepBags ==
    {[name |-> st[1], order |-> [type |-> "int", val |-> st[2]], parent_process |-> <<"p">>] :
        st \in {<<<<"a">>, 1>>, <<<<"b">>, 2>>, <<<<"c">>, 3>>, <<<<"b">>, 1>>}}

StepChunks ==
    {[NoCandidates EXCEPT !.processes = ps, !.tasks = ts, !.sequence_flows = fs] :
        ps \in SeqsUpTo({[name |-> <<"p">>]}, 1),
        ts \in {l \in SeqsUpTo(StepBags, MaxChunkTasks) :
                    \A i, j \in 1..Len(l) : i # j => l[i].name # l[j].name},
        fs \in SeqsUpTo(FlowBags, MaxFlows)}

\* a chunk about the steps of a process for which the oracle returns no
\* sequence_flows
OrderedChunks == {ex \in StepChunks : ex.sequence_flows = << >>}

\* a chunk about roles and tasks that tell no performer: a task may have the
\* name of a role in its own
ReviewChunks ==
    {[NoCandidates EXCEPT !.roles = rs, !.tasks = ts] :
        rs \in {<< >>, <<[name |-> <<"M", "g", "r">>]>>,
                <<[name |-> <<"M", "g", "r">>], [name |-> <<"h", "r">>]>>},
        ts \in {l \in SeqsUpTo({[name |-> <<"a">>], [name |-> <<"b">>],
                                 [name |-> <<"m", "g", "r", " ", "a">>]}, MaxChunkTasks) :
                    \A i, j \in 1..Len(l) : i # j => l[i].name # l[j].name}}

\* a chunk with up to MaxAskTasks tasks the oracle gives no name, of which
\* none, the first, every second or all tell their performer, and the role or not
RoleHolders(n) == {{}, {1}, {i \in 1..n : i % 2 = 0}, 1..n}

AskChunks ==
    {[NoCandidates EXCEPT !.roles = rs, !.tasks = ts] :
        rs \in SeqsUpTo({[name |-> <<"m", "g", "r">>]}, 1),
        ts \in UNION {{[i \in 1..n |-> IF i \in holders
                                         THEN "performer_role" :> <<"m", "g", "r">>
                                         ELSE << >>] :
                          holders \in RoleHolders(n)} : n \in 0..MaxAskTasks}}

\* a chunk about a process, a role and tasks, one of which tells its process
\* and its performer
FullChunks ==
    {[NoCandidates EXCEPT !.processes = ps, !.roles = rs, !.tasks = ts] :
        ps \in SeqsUpTo({[name |-> <<"p">>]}, 1),
        rs \in SeqsUpTo({[name |-> <<"m", "g", "r">>]}, 1),
        ts \in SeqsUpTo({[name |-> <<"a">>, parent_process |-> <<"p">>,
                          performer_role |-> <<"m", "g", "r">>],
                         [name |-> <<"b">>]}, MaxChunkTasks)}

\* a chunk whose candidates lack their name, or have null or "" for it, and a
\* task whose stated order is no number
MalformedChunks ==
    {[NoCandidates EXCEPT !.processes = ps, !.roles = rs, !.tasks = ts] :
        ps \in SeqsUpTo(Optional("name", {<<"p">>, None}), 1),
        rs \in SeqsUpTo(Optional("name", {<<"M", "g", "r">>, None, Empty}), 1),
        ts \in SeqsUpTo(Optional("name", {<<"a">>, None})
                        \cup {[name |-> <<"a">>, order |-> [type |-> "str", val |-> <<"x">>]]}, 1)}

\* the relationships of a chunk about tasks a and b, role Mgr and process p:
\* some name what the chunk has, some what it has not, some lack a name or
\* have "" for it
RoleMappingBags ==
    {[task_name |-> <<"a">>, role_name |-> <<"m", "g", "r">>],
     [task_name |-> <<"a">>, role_name |-> <<"h", "r">>],
     [task_name |-> <<"z">>, role_name |-> <<"m", "g", "r">>],
     [task_name |-> Empty, role_name |-> <<"m", "g", "r">>],
     [role_name |-> <<"m", "g", "r">>]}

ProcessMappingBags ==
    {[task_name |-> <<"a">>, process_name |-> <<"p">>],
     [task_name |-> <<"a">>, process_name |-> <<"q">>],
     [task_name |-> <<"z">>, process_name |-> <<"p">>],
     [process_name |-> <<"p">>]}

RelationFlowBags ==
    {[from_task |-> <<"a">>, to_task |-> <<"b">>],
     [from_task |-> <<"a">>, to_task |-> <<"z">>],
     [from_task |-> Empty, to_task |-> <<"b">>],
     [to_task |-> <<"b">>]}

\* a chunk with tasks and at most one relationship
RelationChunks ==
    {[NoCandidates EXCEPT !.processes = ps, !.roles = rs, !.tasks = ts,
                          !.task_role_mappings = rel.trm,
                          !.task_process_mappings = rel.tpm,
                          !.sequence_flows = rel.sf] :
        ps \in SeqsUpTo({[name |-> <<"p">>]}, 1),
        rs \in SeqsUpTo({[name |-> <<"M", "g", "r">>]}, 1),
        ts \in {<< >>, <<[name |-> <<"a">>]>>,
                <<[name |-> <<"a">>, performer_role |-> <<"h", "r">>]>>,
                <<[name |-> <<"a">>], [name |-> <<"b">>]>>},
        rel \in {[trm |-> << >>, tpm |-> << >>, sf |-> << >>]}
                \cup {[trm |-> <<m>>, tpm |-> << >>, sf |-> << >>] : m \in RoleMappingBags}
                \cup {[trm |-> << >>, tpm |-> <<m>>, sf |-> << >>] : m \in ProcessMappingBags}
                \cup {[trm |-> << >>, tpm |-> << >>, sf |-> <<f>>] : f \in RelationFlowBags}}

\* what the oracle can state as the order of a task: null, an integer, a
\* float (in tenths), a boolean, a string, a list
OrderValues ==
    {[type |-> "NoneType"],
     [type |-> "int", val |-> 2],
     [type |-> "float", val |-> 25],
     [type |-> "bool", val |-> TRUE],
     [type |-> "str", val |-> <<"2">>],
     [type |-> "str", val |-> <<" ", "2">>],
     [type |-> "str", val |-> <<"2", ".", "5">>],
     [type |-> "str", val |-> <<"x">>],
     [type |-> "list"]}

\* a chunk of tasks that state their order in some way, or not at all
OrderChunks ==
    {[NoCandidates EXCEPT !.tasks = ts] :
        ts \in SeqsUpTo({[name |-> <<"a">>] @@ o : o \in Optional("order", OrderValues)},
                        MaxChunkTasks)}

\* the arguments generate is called with: the tasks of a process, each with an
\* order and a type; no event, a start event, an end event, both, or an
\* intermediate event; a gateway or none; no role, a role with the first task,
\* two roles of which the second has the first two tasks, or a role beside a
\* task_role_map that gives the first task a role the list has not
BpmnTasks ==
    UNION {{[k \in 1..n |-> [task_id |-> k, order |-> of[k].order, task_type |-> of[k].task_type]] :
               of \in [1..n -> [order : 1..2, task_type : {"human", "agent", "system"}]]} :
           n \in 0..MaxChunkTasks}

BpmnEvents ==
    {<< >>,
     <<[event_id |-> 1, event_type |-> "start"]>>,
     <<[event_id |-> 1, event_type |-> "end"]>>,
     <<[event_id |-> 1, event_type |-> "start"], [event_id |-> 2, event_type |-> "end"]>>,
     <<[event_id |-> 1, event_type |-> "intermediate"]>>}

BpmnGateways == {<< >>, <<[gateway_id |-> 1, gateway_type |-> "exclusive"]>>}

BpmnArguments ==
    {[process |-> [proc_id |-> 1], tasks |-> ts, roles |-> lane.roles, gateways |-> gs,
      events |-> es, task_role_map |-> lane.task_role_map] :
        ts \in BpmnTasks, gs \in BpmnGateways, es \in BpmnEvents,
        lane \in {[roles |-> << >>, task_role_map |-> EmptyDict],
                  [roles |-> <<[role_id |-> 1]>>, task_role_map |-> 1 :> 1],
                  [roles |-> <<[role_id |-> 1], [role_id |-> 2]>>, task_role_map |-> (1 :> 2) @@ (2 :> 2)],
                  [roles |-> <<[role_id |-> 1]>>, task_role_map |-> 1 :> 2]}}

\* tasks of which one has a name that is part of the names of the others, one
\* of these hinting at it as its next task
MatchTaskBags ==
    {[name |-> <<"a">>], [name |-> <<"a", "b">>], [name |-> <<"a", "c">>],
     [name |-> <<"a", "c">>, next_task |-> <<"a">>]}

\* a chunk of such tasks in any order, processes p and q or none, role Mgr,
\* and at most one relationship that names a task by "a" or "b"
MatchChunks ==
    {[NoCandidates EXCEPT !.processes = ps, !.roles = <<[name |-> <<"M", "g", "r">>]>>,
                          !.tasks = ts,
                          !.task_role_mappings = rel.trm,
                          !.task_process_mappings = rel.tpm,
                          !.sequence_flows = rel.sf] :
        ps \in {<< >>, <<[name |-> <<"p">>], [name |-> <<"q">>]>>},
        ts \in {l \in SeqsUpTo(MatchTaskBags, MaxChunkTasks) :
                    \A i, j \in 1..Len(l) : i # j => l[i].name # l[j].name},
        rel \in {[trm |-> << >>, tpm |-> << >>, sf |-> << >>],
                 [trm |-> <<[task_name |-> <<"a">>, role_name |-> <<"m", "g", "r">>]>>,
                  tpm |-> << >>, sf |-> << >>],
                 [trm |-> << >>,
                  tpm |-> <<[task_name |-> <<"a">>, process_name |-> <<"q">>]>>, sf |-> << >>],
                 [trm |-> << >>, tpm |-> << >>,
                  sf |-> <<[from_task |-> <<"a">>, to_task |-> <<"b">>]>>],
                 [trm |-> << >>, tpm |-> << >>,
                  sf |-> <<[from_task |-> <<"b">>, to_task |-> <<"a">>]>>]}}

\* the text matches find_similar_entity is handed: store nodes in any order,
\* each with a similarity
SimilarityScores == {0 - 10, 0, 79, 80, 89, 90, 100}

TextMatches ==
    {ms \in SeqsUpTo([node : 101..(100 + MaxMatches), similarity : SimilarityScores], MaxMatches) :
        \A i, j \in 1..Len(ms) : i # j => ms[i].node # ms[j].node}

-----------------------------------------------------------------------------
(* The run of the workflow over a document *)

\* a chunk about roles with or without an org_unit and tasks that have the
\* name of a role or of an org_unit in their name or description, or tell
\* their performer
InferChunks ==
    {[NoCandidates EXCEPT !.roles = rs, !.tasks = ts] :
        rs \in {<< >>,
                <<[name |-> <<"M", "g", "r">>], [name |-> <<"h", "r">>, org_unit |-> <<"O", "p", "s">>]>>,
                <<[name |-> <<"h", "r">>, org_unit |-> <<"O", "p", "s">>], [name |-> <<"M", "g", "r">>]>>},
        ts \in {<< >>,
                <<[name |-> <<"a">>, description |-> <<"o", "p", "s", " ", "m", "g", "r">>]>>,
                <<[name |-> <<"o", "p">>, description |-> <<"s">>], [name |-> <<"b">>]>>,
                <<[name |-> <<"M", "G", "R", " ", "b">>, performer_role |-> <<"h", "r">>],
                  [name |-> <<"a", " ", "h", "r">>]>>}}

\* a chunk about a role or none and tasks that tell no performer, one of
\* them an agent's
UiChunks ==
    {[NoCandidates EXCEPT !.roles = rs, !.tasks = ts] :
        rs \in {<< >>, <<[name |-> <<"M", "g", "r">>]>>},
        ts \in {<< >>,
                <<[name |-> <<"a">>]>>,
                <<[name |-> <<"m", "g", "r", " ", "a">>], [name |-> <<"b">>, task_type |-> <<"a", "g", "e", "n", "t">>]>>,
                <<[name |-> <<"c">>, performer_role |-> <<"m", "g", "r">>], [name |-> <<"b">>]>>}}

\* the oracle's call failing: chain.invoke or ExtractedEntities(**result) raises
OracleFailure == [raised |-> TRUE]

\* a failure handing on the candidates of the section before
extract_from_text_stale(answer) == IF answer = OracleFailure THEN extracted ELSE answer

\* extract_from_text: the oracle's candidates, and ExtractedEntities() when the
\* call raised
extract_from_text(answer) == IF answer = OracleFailure THEN NoCandidates ELSE answer

\* the section loop, the oracle answering with candidates of a family or failing
ExtractCandidates(family) ==
    \E answer \in family :
        /\ ExtractSection(extract_from_text(answer))
        /\ oracle_errors' = IF answer = OracleFailure THEN oracle_errors + 1 ELSE oracle_errors

-----------------------------------------------------------------------------
(* The REST API: upload_file, start_processing, process_pdf_background,    *)
(* stream_job_status                                                       *)

\* the jobs uploaded and the background runs started
MaxJobs == 2
MaxRuns == 2

\* the variables of the workflow object of a session, which the API leaves alone
session_vars ==
    <<state, process_name_to_id, role_name_to_id, task_role_map, task_process_map,
      sequence_flows, all_processes, all_tasks, all_roles, all_gateways, all_events,
      extracted, entities, sim_log, sim_in, sim_out, section_index, oracle_errors,
      ambiguities, exception, existing_context, bpmn_in, bpmn_xml, merge_in, merge_out>>

\* the names of the files uploaded (stem and suffix), and the documents
FileNames == {<<"a", ".pdf">>, <<"b", ".pdf">>, <<"a", ".txt">>}
Documents == {1, 2}

\* file.filename.endswith('.pdf')
IsPdf(file_name) == file_name[Len(file_name)] = ".pdf"

\* a document without text
EmptyDocument == 0

\* what the oracle extracts from a document: one task, named after it, and
\* nothing from a document without text
DocumentCandidates(document) ==
    IF document = EmptyDocument THEN NoCandidates
    ELSE [NoCandidates EXCEPT !.tasks = <<[name |-> IF document = 1 THEN <<"a">> ELSE <<"b">>]>>]

NoResult == [tasks |-> 0, bpmn_path |-> "", dmn_path |-> ""]

DmnFile == "decisions.dmn"

\* the jobs as a stream or a status request reads them
JobOf(job_id) == job_progress[job_id]

\* upload_file: the file is saved under its name and a job made for it
UploadFile(file_name, document) ==
    /\ Len(job_progress) < MaxJobs
    /\ IF ~IsPdf(file_name)
       THEN /\ http_response' = [code |-> 400, job_id |-> 0]
            /\ UNCHANGED <<upload_dir, job_progress, job_streams>>
       ELSE /\ upload_dir' = DictSet(upload_dir, file_name, document)
            /\ job_progress' = Append(job_progress,
                                      [status |-> "pending", current_step |-> "uploaded",
                                       file_path |-> file_name, result |-> NoResult])
            /\ job_streams' = Append(job_streams, "none")
            /\ http_response' = [code |-> 200, job_id |-> Len(job_progress) + 1]
    /\ UNCHANGED <<job_runs, store, output_dir>>
    /\ UNCHANGED session_vars

\* a run that has not ended
Active(run) == run.pc \notin {"completed", "error"}

\* a test that lets every request through
AlreadyProcessingNever(job) == FALSE

\* job["status"] == "processing"
AlreadyProcessing(job) == job.status = "processing"

\* the background run start_processing adds for a job; others are the jobs
\* that have a run going at that moment
NewRun(job_id, others) ==
    [job_id |-> job_id, pc |-> "ingest_pdf", document |-> 0,
     state |-> [processes |-> << >>, tasks |-> << >>, roles |-> << >>,
                gateways |-> << >>, events |-> << >>,
                open_questions |-> << >>, resolved_questions |-> << >>,
                current_question |-> 0, user_answer |-> None,
                skills |-> << >>, error |-> << >>, current_step |-> "ingest_pdf"],
     task_role_map |-> EmptyDict, task_process_map |-> EmptyDict, sequence_flows |-> << >>,
     sim_log |-> NoLog, bpmn_xml |-> << >>, overlaps |-> others]

\* start_processing: 404 for a job that is not there, 400 for one that is
\* being processed; otherwise the background run is added and the status set
StartProcessing(job_id) ==
    /\ IF job_id \notin DOMAIN job_progress
       THEN /\ http_response' = [code |-> 404, job_id |-> job_id]
            /\ UNCHANGED <<job_progress, job_runs>>
       ELSE IF AlreadyProcessing(job_progress[job_id])
       THEN /\ http_response' = [code |-> 400, job_id |-> job_id]
            /\ UNCHANGED <<job_progress, job_runs>>
       ELSE /\ Len(job_runs) < MaxRuns
            /\ LET others == {job_runs[r].job_id : r \in {q \in DOMAIN job_runs : Active(job_runs[q])}}
                                \ {job_id}
               IN job_runs' = Append([r \in DOMAIN job_runs |->
                                         IF Active(job_runs[r]) /\ job_runs[r].job_id # job_id
                                         THEN [job_runs[r] EXCEPT !.overlaps = @ \cup {job_id}]
                                         ELSE job_runs[r]],
                                     NewRun(job_id, others))
            /\ job_progress' = [job_progress EXCEPT ![job_id].status = "processing"]
            /\ http_response' = [code |-> 200, job_id |-> job_id]
    /\ UNCHANGED <<upload_dir, job_streams, store, output_dir>>
    /\ UNCHANGED session_vars

\* a run that has returned: its workflow and its state are gone; what is kept
\* of it is how it ended, the jobs it went along with, the document it saved
\* and the answers of its similarity lookups
Ended(run, pc) ==
    [NewRun(run.job_id, run.overlaps) EXCEPT
        !.pc = pc,
        !.state = [@ EXCEPT !.current_step = pc],
        !.sim_log = IF pc = "completed" THEN run.sim_log ELSE NoLog,
        !.bpmn_xml = IF pc = "completed" THEN run.bpmn_xml ELSE << >>]

\* the ids of the objects the r-th run makes: uuids, which no other run draws
RunBase(r) == 100 * r

\* the step at which the run r is, and what update_step shows of it
AtStep(r, pc) == r \in DOMAIN job_runs /\ job_runs[r].pc = pc

Advance(r, pc, shown) ==
    /\ job_runs' = [job_runs EXCEPT ![r].pc = pc]
    /\ job_progress' = [job_progress EXCEPT ![job_runs[r].job_id].current_step = shown]

\* ingest_pdf: the file under the job's file_path is read
RunIngestPdf(r) ==
    /\ AtStep(r, "ingest_pdf")
    /\ job_progress' = [job_progress EXCEPT ![job_runs[r].job_id].current_step = "ingest_pdf"]
    /\ UNCHANGED <<upload_dir, job_streams, http_response, store, output_dir>>
    /\ UNCHANGED session_vars
    /\ job_runs' = [job_runs EXCEPT
                       ![r].pc = "segment_sections",
                       ![r].document = upload_dir[job_progress[job_runs[r].job_id].file_path]]

\* segment_sections
RunSegmentSections(r) ==
    /\ AtStep(r, "segment_sections")
    /\ Advance(r, "extract_candidates", "segment_sections")
    /\ UNCHANGED <<upload_dir, job_streams, http_response, store, output_dir>>
    /\ UNCHANGED session_vars

\* extract_candidates_with_progress, which the API calls and graph.py does
\* not define: the extraction of extract_candidates over the document's one
\* section, as the specification describes the extraction step
extract_candidates_with_progress(document, base) ==
    convert_to_entities(extract_from_text(DocumentCandidates(document)), EmptyDict, EmptyDict,
                        base, base, base, base, base)

\* the run after the extraction returned
Extracted(run, result) ==
    [run EXCEPT !.pc = "normalize_entities",
                !.state = [@ EXCEPT !.processes = result.processes,
                                    !.tasks = result.tasks,
                                    !.roles = result.roles,
                                    !.gateways = result.gateways,
                                    !.events = result.events,
                                    !.current_step = "normalize_entities"],
                !.task_role_map = result.task_role_map,
                !.task_process_map = result.task_process_map,
                !.sequence_flows = result.sequence_flows]

\* the extraction step when the call returns
RunExtractCandidates(r) ==
    /\ AtStep(r, "extract_candidates")
    /\ job_progress' = [job_progress EXCEPT
                           ![job_runs[r].job_id].current_step = "extract_candidates"]
    /\ UNCHANGED <<upload_dir, job_streams, http_response, store, output_dir>>
    /\ UNCHANGED session_vars
    /\ job_runs' = [job_runs EXCEPT
                       ![r] = Extracted(@, extract_candidates_with_progress(@.document, RunBase(r)))]

\* the run after normalize_entities returned
Normalized(run, result) ==
    [run EXCEPT !.pc = "generate_skills",
                !.state = [@ EXCEPT !.processes = result.processes,
                                    !.tasks = result.tasks,
                                    !.roles = result.roles,
                                    !.current_step = "detect_ambiguities"],
                !.task_role_map = result.task_role_map,
                !.sim_log = result.sim_log]

\* normalize_entities of the run's workflow on the graph store all runs share
RunNormalizeEntities(r) ==
    /\ AtStep(r, "normalize_entities")
    /\ job_progress' = [job_progress EXCEPT
                           ![job_runs[r].job_id].current_step = "create_relationships"]
    /\ UNCHANGED <<upload_dir, job_streams, http_response, output_dir>>
    /\ UNCHANGED session_vars
    /\ \E lookupsP \in LookupLists(store.nodes, "Process", job_runs[r].state.processes),
          lookupsT \in LookupLists(store.nodes, "Task", job_runs[r].state.tasks),
          lookupsR \in LookupLists(store.nodes, "Role", job_runs[r].state.roles),
          tie \in StoreOrders(job_runs[r].state.tasks, job_runs[r].state.processes) :
            LET result == normalize_entities(job_runs[r].state, store, job_runs[r].task_role_map,
                                             job_runs[r].task_process_map,
                                             job_runs[r].sequence_flows,
                                             lookupsP, lookupsT, lookupsR, tie)
            IN /\ job_runs' = [job_runs EXCEPT ![r] = Normalized(@, result)]
               /\ store' = result.store

\* generate_skills
RunGenerateSkills(r) ==
    /\ AtStep(r, "generate_skills")
    /\ job_progress' = [job_progress EXCEPT ![job_runs[r].job_id].current_step = "generate_bpmn"]
    /\ UNCHANGED <<upload_dir, job_streams, http_response, store, output_dir>>
    /\ UNCHANGED session_vars
    /\ job_runs' = [job_runs EXCEPT
                       ![r].pc = "assemble_bpmn",
                       ![r].state = generate_skills(@, job_runs[r].task_role_map)]

\* the run after assemble_bpmn returned
Assembled(run, assembled) ==
    [run EXCEPT !.pc = "generate_dmn", !.state = assembled.state, !.bpmn_xml = assembled.bpmn_xml]

\* assemble_bpmn: the document is saved as OUTPUT_DIR / "process.bpmn"
RunAssembleBpmn(r) ==
    /\ AtStep(r, "assemble_bpmn")
    /\ job_progress' = [job_progress EXCEPT ![job_runs[r].job_id].current_step = "generate_bpmn"]
    /\ UNCHANGED <<upload_dir, job_streams, http_response, store>>
    /\ UNCHANGED session_vars
    /\ job_runs' = [job_runs EXCEPT
                       ![r] = Assembled(@, assemble_bpmn(@.state, @.task_role_map, RunBase(r) + 99))]
    /\ output_dir' = DictSet(output_dir, BpmnFile, job_runs'[r].bpmn_xml)

\* generate_dmn
RunGenerateDmn(r) ==
    /\ AtStep(r, "generate_dmn")
    /\ job_progress' = [job_progress EXCEPT ![job_runs[r].job_id].current_step = "generate_dmn"]
    /\ UNCHANGED <<upload_dir, job_streams, http_response, store, output_dir>>
    /\ UNCHANGED session_vars
    /\ job_runs' = [job_runs EXCEPT ![r].pc = "export_artifacts",
                                    ![r].state = generate_dmn(@)]

\* export_artifacts and the end of the run: the job is completed and its
\* result names the files of OUTPUT_DIR
RunExportArtifacts(r) ==
    /\ AtStep(r, "export_artifacts")
    /\ job_progress' = [job_progress EXCEPT
                           ![job_runs[r].job_id].current_step = "export",
                           ![job_runs[r].job_id].status = "completed",
                           ![job_runs[r].job_id].result =
                               [tasks |-> Len(job_runs[r].state.tasks),
                                bpmn_path |-> BpmnFile, dmn_path |-> DmnFile]]
    /\ UNCHANGED <<upload_dir, job_streams, http_response, store, output_dir>>
    /\ UNCHANGED session_vars
    /\ job_runs' = [job_runs EXCEPT ![r] = Ended(@, export_artifacts(@.state).current_step)]

\* a step of the run raises (the file cannot be parsed, the store or the
\* oracle is not reachable, the workflow has no extract_candidates_with_progress):
\* except Exception sets the status "error"
RunRaises(r) ==
    /\ r \in DOMAIN job_runs
    /\ Active(job_runs[r])
    /\ job_runs' = [job_runs EXCEPT ![r] = Ended(@, "error")]
    /\ job_progress' = [job_progress EXCEPT ![job_runs[r].job_id].current_step = "error",
                                            ![job_runs[r].job_id].status = "error"]
    /\ UNCHANGED <<upload_dir, job_streams, http_response, store, output_dir>>
    /\ UNCHANGED session_vars

\* a step of the r-th background run
RunStep(r) ==
    \/ RunIngestPdf(r)
    \/ RunSegmentSections(r)
    \/ RunExtractCandidates(r)
    \/ RunNormalizeEntities(r)
    \/ RunGenerateSkills(r)
    \/ RunAssembleBpmn(r)
    \/ RunGenerateDmn(r)
    \/ RunExportArtifacts(r)
    \/ RunRaises(r)

\* stream_job_status: 404 for a job that is not there, else a stream is opened
StreamJobStatus(job_id) ==
    /\ IF job_id \notin DOMAIN job_progress
       THEN /\ http_response' = [code |-> 404, job_id |-> job_id]
            /\ UNCHANGED job_streams
       ELSE /\ job_streams[job_id] # "open"
            /\ job_streams' = [job_streams EXCEPT ![job_id] = "open"]
            /\ http_response' = [code |-> 200, job_id |-> job_id]
    /\ UNCHANGED <<upload_dir, job_progress, job_runs, store, output_dir>>
    /\ UNCHANGED session_vars

\* the turn of the loop of event_generator that finds the status "completed"
\* or "error": the job is sent a last time and the stream ends (the turns
\* before send the job when it changed and sleep)
StreamPoll(job_id) ==
    /\ job_id \in DOMAIN job_streams
    /\ job_streams[job_id] = "open"
    /\ job_progress[job_id].status \in {"completed", "error"}
    /\ job_streams' = [job_streams EXCEPT ![job_id] = "ended"]
    /\ UNCHANGED <<upload_dir, job_progress, job_runs, http_response, store, output_dir>>
    /\ UNCHANGED session_vars

-----------------------------------------------------------------------------
(* The specifications *)

\* a document about processes, their tasks, gateways and events
Next == ExtractCandidates(ProcessChunks \cup GatewayChunks) \/ ExtractReturn \/ Normalize

Init == InitWith({"Process"})

Spec == Init /\ [][Next]_vars

\* a document that names processes and roles
NextNames == ExtractCandidates(NameChunks) \/ ExtractReturn \/ Normalize

InitNames == InitWith({"Process"})

SpecNames == InitNames /\ [][NextNames]_vars

\* a document about roles and the tasks they perform
NextRoles == ExtractCandidates(RoleChunks) \/ ExtractReturn \/ Normalize

InitRoles == InitWith({"Role"})

SpecRoles == InitRoles /\ [][NextRoles]_vars

\* a document about sequences of tasks
NextFlow == ExtractCandidates(FlowChunks) \/ ExtractReturn \/ Normalize

InitFlow == InitWith({})

SpecFlow == InitFlow /\ [][NextFlow]_vars

\* a document about the steps of a process
NextSteps == ExtractCandidates(StepChunks) \/ ExtractReturn \/ Normalize

InitSteps == InitWith({})

SpecSteps == InitSteps /\ [][NextSteps]_vars

\* a document about the steps of a process, of which only the order is told
NextOrdered == ExtractCandidates(OrderedChunks) \/ ExtractReturn \/ Normalize

InitOrdered == InitWith({})

SpecOrdered == InitOrdered /\ [][NextOrdered]_vars

\* a document whose questions are answered through the workflow or the UI
NextReview ==
    \/ ExtractCandidates(ReviewChunks)
    \/ ExtractReturn
    \/ Normalize
    \/ DetectAmbiguities
    \/ AskUser
    \/ \E user_answer \in UserAnswers(state.current_question) : ApplyUserAnswer(user_answer)
    \/ \E answer \in UserAnswers(0) \cup {NewRoleOption, UnassignedOption}
                       \cup {<<"M", "g", "r">>, <<"h", "r">>} : UiConfirm(answer)
    \/ UiSkip

InitReview == InitWith({})

SpecReview == InitReview /\ [][NextReview]_vars

\* a document with many tasks without a name, up to the detection of ambiguities
ExtractAsk ==
    \E answer \in AskChunks :
        /\ ExtractSectionWithin(extract_from_text(answer), MaxAskTasks)
        /\ oracle_errors' = oracle_errors

NextAsk == ExtractAsk \/ ExtractReturn \/ Normalize \/ DetectAmbiguities

InitAsk == InitWith({})

SpecAsk == InitAsk /\ [][NextAsk]_vars

\* a document for some sections of which the oracle fails
NextFaulty ==
    ExtractCandidates(FullChunks \cup {OracleFailure}) \/ ExtractReturn \/ Normalize

InitFaulty == InitWith({})

SpecFaulty == InitFaulty /\ [][NextFaulty]_vars

\* a document for which the oracle answers with malformed candidates
NextMalformed == ExtractCandidates(MalformedChunks) \/ ExtractReturn \/ Normalize

InitMalformed == InitWith({})

SpecMalformed == InitMalformed /\ [][NextMalformed]_vars

\* a document for which the oracle answers with relationships
NextRelations == ExtractCandidates(RelationChunks) \/ ExtractReturn \/ Normalize

InitRelations == InitWith({})

SpecRelations == InitRelations /\ [][NextRelations]_vars

\* a document for which the oracle states orders of every type
NextOrders == ExtractCandidates(OrderChunks) \/ ExtractReturn

InitOrders == InitWith({})

SpecOrders == InitOrders /\ [][NextOrders]_vars

\* a document whose relationships name tasks by a part of their names
NextMatch == ExtractCandidates(MatchChunks) \/ ExtractReturn \/ Normalize

InitMatch == InitWith({})

SpecMatch == InitMatch /\ [][NextMatch]_vars

\* a document about roles and tasks that tell no performer but in their text
NextInfer == ExtractCandidates(InferChunks) \/ ExtractReturn \/ Normalize

InitInfer == InitWith({})

SpecInfer == InitInfer /\ [][NextInfer]_vars

\* a document taken through the UI: process_document up to the questions,
\* the questions section, and the generation steps, which process_document
\* runs itself when there is no question and render_continue_processing after
\* the questions
NextUi ==
    \/ ExtractCandidates(UiChunks)
    \/ ExtractReturn
    \/ Normalize
    \/ DetectAmbiguities
    \/ \E answer \in {NewRoleOption, UnassignedOption, <<"M", "g", "r">>} : UiConfirm(answer)
    \/ UiSkip
    \/ GenerateSkills
    \/ GenerateDmn
    \/ AssembleBpmn
    \/ ValidateConsistency
    \/ ExportArtifacts
    \/ UiContinueProcessing

InitUi == InitWith({})

SpecUi == InitUi /\ [][NextUi]_vars

\* a run of the compiled workflow graph from extract_candidates on: every
\* node's lists go through the reducer, the routing functions choose the next
\* node, and user_answer holds whatever the caller left in the state
NextGraph ==
    \/ ExtractCandidates(UiChunks)
    \/ ExtractReturn
    \/ GraphNormalize
    \/ DetectAmbiguities
    \/ AskUser
    \/ \E user_answer \in UserAnswers(state.current_question) : GraphApplyUserAnswer(user_answer)
    \/ GenerateSkills
    \/ GenerateDmn
    \/ AssembleBpmn
    \/ ValidateConsistency
    \/ ExportArtifacts

InitGraph == InitWith({})

\* the nodes from detect_ambiguities on, which the routing functions connect:
\* invoke runs the node the routing chose, so one of them that can run does run
GraphRouted ==
    \/ DetectAmbiguities
    \/ AskUser
    \/ \E user_answer \in UserAnswers(state.current_question) : GraphApplyUserAnswer(user_answer)
    \/ GenerateSkills
    \/ GenerateDmn
    \/ AssembleBpmn
    \/ ValidateConsistency
    \/ ExportArtifacts

SpecGraph == InitGraph /\ [][NextGraph]_vars /\ WF_vars(GraphRouted)

\* the lists a node can return for a state list: objects of the list and
\* objects made since, each with its own id, in any order and number
NodeLists == SeqsUpTo({[id |-> n] : n \in 1..MaxItems}, MaxNew)

\* a state list of the compiled graph, from the empty list of
\* create_initial_state on, under the lists the nodes return for it
NextMerge == \E new \in NodeLists : ReducerStep(new)

InitMerge == InitWith({})

SpecMerge == InitMerge /\ [][NextMerge]_vars

\* the API serving uploads of documents and start requests while the
\* background runs go on
NextApi ==
    \/ \E file_name \in FileNames, document \in Documents : UploadFile(file_name, document)
    \/ \E job_id \in 1..MaxJobs : StartProcessing(job_id)
    \/ \E r \in 1..MaxRuns : RunStep(r)

InitApi == InitWith({})

SpecApi == InitApi /\ [][NextApi]_vars

\* one job of the API, started and started again, and its status stream; a
\* run that can take a step takes it (the event loop runs the background task
\* on, and every call of the task returns or raises), and an open stream
\* keeps polling
NextJobs ==
    \/ \E file_name \in {<<"a", ".pdf">>, <<"a", ".txt">>}, document \in {EmptyDocument, 1} :
          job_progress = << >> /\ UploadFile(file_name, document)
    \/ \E job_id \in 1..MaxJobs : StartProcessing(job_id)
    \/ \E r \in 1..MaxRuns : RunStep(r)
    \/ \E job_id \in 1..MaxJobs : StreamJobStatus(job_id)
    \/ \E job_id \in 1..MaxJobs : StreamPoll(job_id)

InitJobs == InitWith({})

SpecJobs ==
    /\ InitJobs
    /\ [][NextJobs]_vars
    /\ WF_vars(\E r \in 1..MaxRuns : RunStep(r))
    /\ WF_vars(\E job_id \in 1..MaxJobs : StreamPoll(job_id))

\* a call of find_similar_entity on any text matches
FindSimilarEntity(text_matches) ==
    /\ sim_in' = text_matches
    /\ sim_out' = find_similar_entity(text_matches)
    /\ UNCHANGED <<process_name_to_id, role_name_to_id, task_role_map, task_process_map,
                   sequence_flows, all_processes, all_tasks, all_roles, all_gateways,
                   all_events, extracted, entities, state, store, sim_log, section_index,
                   oracle_errors, ambiguities, exception, existing_context, bpmn_in, bpmn_xml,
                   output_dir,
                   merge_in, merge_out,
                   upload_dir, job_progress, job_runs, job_streams, http_response>>

NextSim == \E text_matches \in TextMatches : FindSimilarEntity(text_matches)

SpecSim == InitFlow /\ [][NextSim]_vars

\* the call of BPMNGenerator.generate of a run
GenerateBpmn(args) ==
    /\ bpmn_in = NoArguments
    /\ bpmn_in' = args
    /\ bpmn_xml' = generate(args.process, args.tasks, args.roles, args.gateways,
                            args.events, args.task_role_map)
    /\ UNCHANGED <<process_name_to_id, role_name_to_id, task_role_map, task_process_map,
                   sequence_flows, all_processes, all_tasks, all_roles, all_gateways,
                   all_events, extracted, entities, state, store, sim_log, sim_in, sim_out,
                   section_index, oracle_errors, ambiguities, exception, existing_context,
                   output_dir,
                   merge_in, merge_out,
                   upload_dir, job_progress, job_runs, job_streams, http_response>>

NextBpmn == \E args \in BpmnArguments : GenerateBpmn(args)

SpecBpmn == InitFlow /\ [][NextBpmn]_vars

-----------------------------------------------------------------------------
(* Properties *)

\* normalize_entities has completed
Consolidated == state.current_step = "detect_ambiguities"

\* the step is the ingestion of a chunk
ChunkIngested == section_index' = section_index + 1

\* the number of entities of a list with a normalized name
Count(list, name) == Cardinality({k \in 1..Len(list) : Strip(Lower(list[k].name)) = name})

NoDuplicateNames(list) ==
    \A i, j \in 1..Len(list) : i # j => Strip(Lower(list[i].name)) # Strip(Lower(list[j].name))

KeptSome(list, log, name) ==
    \E j \in 1..Len(list) :
        Strip(Lower(list[j].name)) = name /\ log[j].action \notin {"merge", "seen"}

C2_RegisteredProcessNotRecreated ==
    [][ChunkIngested =>
        \A k \in 1..Len(extracted'.processes) :
            LET name == Strip(Lower(Get(extracted'.processes[k], "name", UnknownProcess)))
            IN name \in DOMAIN process_name_to_id =>
                 /\ process_name_to_id'[name] = process_name_to_id[name]
                 /\ \A j \in 1..Len(entities'.processes) :
                       Strip(Lower(entities'.processes[j].name)) # name]_vars

\* the lower-cased name of a candidate role
RoleKey(bag) == Lower(Get(bag, "name", UnknownRole))

\* C3: when a chunk is ingested, every role name the oracle emitted is one key
\* of role_name_to_id and the name of exactly one Role created in the run; a
\* name registered before the chunk creates no Role; no registered name
\* changes its id; the registry grows by the number of new names only
C3_RoleRegistrationIdempotent ==
    [][ChunkIngested =>
        /\ \A k \in 1..Len(extracted'.roles) :
              LET key == RoleKey(extracted'.roles[k])
              IN /\ key \in DOMAIN role_name_to_id'
                 /\ Cardinality({j \in 1..Len(all_roles') : Lower(all_roles'[j].name) = key}) = 1
                 /\ key \in DOMAIN role_name_to_id =>
                       \A j \in 1..Len(entities'.roles) : Lower(entities'.roles[j].name) # key
        /\ \A key \in DOMAIN role_name_to_id :
              key \in DOMAIN role_name_to_id' /\ role_name_to_id'[key] = role_name_to_id[key]
        /\ Cardinality(DOMAIN role_name_to_id')
             = Cardinality(DOMAIN role_name_to_id)
                 + Cardinality({RoleKey(extracted'.roles[k]) : k \in 1..Len(extracted'.roles)}
                                  \ DOMAIN role_name_to_id)]_vars

\* the second chunk emitted a role an earlier chunk had registered
C3_Witness ==
    /\ section_index = 2
    /\ \E k \in 1..Len(extracted.roles) :
          /\ RoleKey(extracted.roles[k]) \in DOMAIN role_name_to_id
          /\ role_name_to_id[RoleKey(extracted.roles[k])] \notin Ids(entities.roles, "role_id")

\* C4: after normalize_entities every task, gateway and event with a process_id
\* names a Process of the consolidated list, and so does every task_process_map
\* value of a consolidated task
C4_ProcessReferencesSurvive ==
    Consolidated =>
        LET procs == Ids(state.processes, "proc_id")
        IN /\ \A k \in 1..Len(state.tasks) :
                 state.tasks[k].process_id # 0 => state.tasks[k].process_id \in procs
           /\ \A k \in 1..Len(state.gateways) :
                 state.gateways[k].process_id # 0 => state.gateways[k].process_id \in procs
           /\ \A k \in 1..Len(state.events) :
                 state.events[k].process_id # 0 => state.events[k].process_id \in procs
           /\ \A t \in DOMAIN task_process_map \cap Ids(state.tasks, "task_id") :
                 task_process_map[t] \in procs

\* C5: after normalize_entities every key of task_role_map and every end of an
\* accumulated sequence flow is a consolidated task, and every value of
\* task_role_map is a consolidated role
C5_RelationshipsSurvive ==
    Consolidated =>
        /\ DOMAIN task_role_map \subseteq Ids(state.tasks, "task_id")
        /\ \A k \in 1..Len(sequence_flows) :
              /\ sequence_flows[k].from_task_id \in Ids(state.tasks, "task_id")
              /\ sequence_flows[k].to_task_id \in Ids(state.tasks, "task_id")
        /\ \A t \in DOMAIN task_role_map : task_role_map[t] \in Ids(state.roles, "role_id")

\* C6: every task created from a chunk has a process_id when a Process has
\* been created in the run up to and including that chunk
C6_ProcessFallback ==
    all_processes # << >> =>
        \A k \in 1..Len(entities.tasks) : entities.tasks[k].process_id # 0

\* C7: when a Process was extracted in the run, every consolidated task has a
\* process_id once normalize_entities has completed
C7_EveryTaskHasProcess ==
    Consolidated /\ all_processes # << >> =>
        \A k \in 1..Len(state.tasks) : state.tasks[k].process_id # 0

\* C8: an entity whose similarity lookup answered review is not in the
\* consolidated list of its kind
C8_ReviewIsParked ==
    Consolidated =>
        /\ \A k \in 1..Len(all_processes) :
              sim_log.Process[k].action = "review"
                  => all_processes[k].proc_id \notin Ids(state.processes, "proc_id")
        /\ \A k \in 1..Len(all_roles) :
              sim_log.Role[k].action = "review"
                  => all_roles[k].role_id \notin Ids(state.roles, "role_id")

\* the highest similarity of a non-empty list of text matches
BestSimilarity(text_matches) ==
    CHOOSE sc \in {text_matches[k].similarity : k \in 1..Len(text_matches)} :
        \A k \in 1..Len(text_matches) : text_matches[k].similarity <= sc

\* C9: find_similar_entity answers create when there is no text match, and
\* otherwise merge when the best similarity is at least 0.90, review when it is
\* at least 0.80 and below 0.90, create when it is below 0.80
C9_MergeDecision ==
    IF sim_in = << >> THEN sim_out.action = "create"
    ELSE LET best == BestSimilarity(sim_in)
         IN /\ best >= 90 => sim_out.action = "merge"
            /\ best >= 80 /\ best < 90 => sim_out.action = "review"
            /\ best < 80 => sim_out.action = "create"

\* the best similarity is exactly 0.90 and the answer is merge
C9_Witness ==
    /\ sim_in # << >>
    /\ BestSimilarity(sim_in) = 90
    /\ sim_out.action = "merge"

\* C10: no two accumulated sequence flows have the same (from, to) pair
C10_NoDuplicateFlows ==
    \A i, j \in 1..Len(sequence_flows) :
        i # j => <<sequence_flows[i].from_task_id, sequence_flows[i].to_task_id>>
                   # <<sequence_flows[j].from_task_id, sequence_flows[j].to_task_id>>

\* C11: no sequence flow has from_task_id equal to to_task_id, neither among
\* the flows convert_to_entities returns for a chunk, nor among the accumulated
\* flows, nor among the NEXT relationships _create_sequence_flows creates
C11_NoSelfLoops ==
    /\ \A k \in 1..Len(entities.sequence_flows) :
          entities.sequence_flows[k].from_task_id # entities.sequence_flows[k].to_task_id
    /\ \A k \in 1..Len(sequence_flows) :
          sequence_flows[k].from_task_id # sequence_flows[k].to_task_id
    /\ \A pr \in BagToSet(store.next) : pr[1] # pr[2]

\* the flows convert_to_entities takes from the oracle's sequence_flows and
\* next_task hints of the last chunk, before it synthesizes any
ExplicitPart ==
    NextTaskFlows(ExplicitFlows(<< >>, extracted.sequence_flows, entities.tasks), 1, entities.tasks)

\* C12: order-based synthesis never adds a second copy of an explicit edge:
\* the flows of a chunk are its explicit flows followed by synthesized flows
\* none of which repeats the (from, to) pair of an explicit flow, and after the
\* whole-run synthesis no two tasks are linked by more than one NEXT relationship
C12_SynthesisSkipsExplicitFlows ==
    /\ Len(ExplicitPart) <= Len(entities.sequence_flows)
    /\ SubSeq(entities.sequence_flows, 1, Len(ExplicitPart)) = ExplicitPart
    /\ \A k \in (Len(ExplicitPart) + 1)..Len(entities.sequence_flows) :
          <<entities.sequence_flows[k].from_task_id, entities.sequence_flows[k].to_task_id>>
              \notin FlowPairs(ExplicitPart)
    /\ \A pr \in BagToSet(store.next) : CopiesIn(pr, store.next) = 1

\* a run whose last chunk has an explicit flow between two order-adjacent
\* tasks of one process, linked once in the store
C12_Witness ==
    /\ Consolidated
    /\ \E pr \in FlowPairs(ExplicitPart) :
          /\ pr \in OrderPairs(entities.tasks)
          /\ pr \in OrderPairs(state.tasks)
          /\ \E k \in 1..Len(state.processes) :
                pr \in ProcessSequencePairs(state.processes[k].proc_id, store.has_task,
                                            state.tasks, store.rank)
          /\ CopiesIn(pr, store.next) = 1

\* the NEXT relationships after _create_sequence_flows is run once more with
\* the arguments normalize_entities called it with, on the store the call
\* left: the consolidated tasks as they were handed over (before), the
\* consolidated processes (after), the accumulated flows
SecondRun(before, after, store0, store1) ==
    LET unique_tasks == SelectSeq(before.tasks,
                                  LAMBDA t : t.task_id \in Ids(after.tasks, "task_id"))
        has_task1 == store0.has_task
                       \cup CreateTaskEdges(store1.nodes, unique_tasks)
                       \cup MapEdges(store1.nodes, task_process_map, "Process", "Task")
    IN _create_sequence_flows(store1.nodes, has_task1, store1.next, sequence_flows,
                              unique_tasks, after.processes, store1.rank)

OneProcessDistinctOrders(tasks) ==
    /\ \A i \in 1..Len(tasks) : tasks[i].process_id # 0 /\ tasks[i].process_id = tasks[1].process_id
    /\ \A i, j \in 1..Len(tasks) :
          i # j => /\ tasks[i].order # tasks[j].order
                   /\ Strip(Lower(tasks[i].name)) # Strip(Lower(tasks[j].name))

\* the pairs of tasks that follow each other in order
ConsecutiveByOrder(tasks) ==
    {<<tasks[i].task_id, tasks[j].task_id>> :
        <<i, j>> \in {ij \in (1..Len(tasks)) \X (1..Len(tasks)) :
                         /\ tasks[ij[1]].order < tasks[ij[2]].order
                         /\ ~\E k \in 1..Len(tasks) :
                                /\ tasks[ij[1]].order < tasks[k].order
                                /\ tasks[k].order < tasks[ij[2]].order}}

OfferedRoleNames(amb) == {amb.options[k] : k \in 1..(Len(amb.options) - 2)}

\* task_role_map after one more run of the keyword inference over the
\* consolidated tasks and roles
LaterInference == _infer_task_role_relationships(task_role_map, state.tasks, state.roles)

\* C15: manual resolution is terminal: once the question about a task is
\* resolved, a later run of _infer_task_role_relationships leaves the task's
\* entry of task_role_map as it is, whichever option was chosen, and a task
\* resolved through apply_user_answer to one of the offered roles has that
\* role after the later run
C15_ManualResolutionIsTerminal ==
    \A q \in 1..Len(ambiguities) :
        (ambiguities[q].status = "resolved" /\ ambiguities[q].entity_type = "Task")
            => LET task_id == ambiguities[q].entity_id
               IN /\ (task_id \in DOMAIN LaterInference) = (task_id \in DOMAIN task_role_map)
                  /\ task_id \in DOMAIN task_role_map
                        => LaterInference[task_id] = task_role_map[task_id]
                  /\ (/\ store.ambiguities[q].status = "resolved"
                      /\ ambiguities[q].answer \in OfferedRoleNames(ambiguities[q]))
                        => /\ task_id \in DOMAIN LaterInference
                           /\ \E k \in 1..Len(state.roles) :
                                 /\ state.roles[k].name = ambiguities[q].answer
                                 /\ LaterInference[task_id] = state.roles[k].role_id

\* two questions resolved through apply_user_answer, one to an offered role and
\* one to "unassigned", beside a task the keyword inference gave a role
C15_Witness ==
    /\ \E q1, q2 \in 1..Len(ambiguities) :
          /\ store.ambiguities[q1].status = "resolved"
          /\ store.ambiguities[q2].status = "resolved"
          /\ ambiguities[q1].answer \in OfferedRoleNames(ambiguities[q1])
          /\ ambiguities[q2].answer = UnassignedOption
          /\ ambiguities[q1].entity_id \in DOMAIN task_role_map
          /\ ambiguities[q2].entity_id \notin DOMAIN task_role_map
    /\ \E t \in DOMAIN task_role_map : \A q \in 1..Len(ambiguities) : ambiguities[q].entity_id # t

\* C16: apply_user_answer resolving the question about a task with one of the
\* offered role names sets task_role_map[task] to the role_id of the role of
\* that name and links the task to the role in the store, as a keyword match
\* of the inference does, and leaves the other entries of the map alone
C16_AnswerSetsTaskRole ==
    [][\A q \in 1..Len(ambiguities) :
          (/\ state.current_step = "waiting_for_user"
           /\ state.current_question = q
           /\ ambiguities[q].entity_type = "Task"
           /\ ambiguities'[q].status = "resolved"
           /\ ambiguities'[q].answer \in OfferedRoleNames(ambiguities[q]))
             => LET task_id == ambiguities[q].entity_id
                IN /\ task_id \in DOMAIN task_role_map'
                   /\ \E k \in 1..Len(state.roles) :
                         /\ state.roles[k].name = ambiguities'[q].answer
                         /\ task_role_map'[task_id] = state.roles[k].role_id
                         /\ <<state.roles[k].role_id, task_id>> \in store'.performed_by
                   /\ \A t \in DOMAIN task_role_map :
                         t # task_id => (t \in DOMAIN task_role_map'
                                           /\ task_role_map'[t] = task_role_map[t])
                   /\ DOMAIN task_role_map' = DOMAIN task_role_map \cup {task_id}]_vars

\* a question resolved through apply_user_answer with the name of the second of
\* two offered roles, the task mapped and linked to that role
C16_Witness ==
    \E q \in 1..Len(ambiguities) :
        /\ store.ambiguities[q].status = "resolved"
        /\ Len(state.roles) = 2
        /\ ambiguities[q].answer = state.roles[2].name
        /\ ambiguities[q].entity_id \in DOMAIN task_role_map
        /\ task_role_map[ambiguities[q].entity_id] = state.roles[2].role_id
        /\ <<state.roles[2].role_id, ambiguities[q].entity_id>> \in store.performed_by

\* C17: an Ambiguity goes from open to resolved and nowhere else: it is created
\* open and without an answer, it changes only by becoming resolved with an
\* answer recorded, once resolved it stays as it is, and apply_user_answer
\* records whatever text it is given, leaving the question open only when it
\* is given none
C17_OpenThenResolved ==
    [][/\ Len(ambiguities') >= Len(ambiguities)
       /\ \A q \in 1..Len(ambiguities') :
             IF q > Len(ambiguities)
             THEN ambiguities'[q].status = "open" /\ ambiguities'[q].answer = None
             ELSE /\ ambiguities[q].status = "resolved" => ambiguities'[q] = ambiguities[q]
                  /\ ambiguities'[q] # ambiguities[q]
                        => /\ ambiguities[q].status = "open"
                           /\ ambiguities'[q].status = "resolved"
                           /\ ambiguities'[q].answer \notin {None, Empty}
                           /\ ambiguities'[q] = [ambiguities[q] EXCEPT
                                                    !.status = "resolved",
                                                    !.answer = ambiguities'[q].answer]
       /\ (state.current_step = "waiting_for_user" /\ state' # state)
             => \/ ambiguities'[state.current_question].status = "resolved"
                \/ state'.user_answer \in {None, Empty}]_vars

\* a question resolved through apply_user_answer with a text that is none of
\* its options, after another was resolved in the UI
C17_Witness ==
    \E q1, q2 \in 1..Len(ambiguities) :
        /\ ambiguities[q1].status = "resolved"
        /\ ambiguities[q1].answer = GarbageAnswer
        /\ store.ambiguities[q1].status = "resolved"
        /\ ambiguities[q2].status = "resolved"
        /\ store.ambiguities[q2].status = "open"

\* detect_ambiguities has run
Detected == state.current_step \in {"ask_user", "generate_skills"}

\* the ids of the consolidated tasks that are no key of task_role_map
RolelessTasks == Ids(TasksWithoutRoles(state.tasks, task_role_map), "task_id")

\* the questions are about different tasks, none of which has a role
DistinctRolelessTargets ==
    /\ \A q \in 1..Len(ambiguities) : ambiguities[q].entity_id \in RolelessTasks
    /\ \A q1, q2 \in 1..Len(ambiguities) :
          q1 # q2 => ambiguities[q1].entity_id # ambiguities[q2].entity_id

\* C18: detect_ambiguities emits min(10, number of consolidated tasks absent
\* from task_role_map) questions, each about a different such task
C18_OneQuestionPerTaskCapped ==
    Detected => /\ Len(ambiguities) = Min(10, Cardinality(RolelessTasks))
                /\ DistinctRolelessTargets

\* C19: the options of every Ambiguity are the names of the consolidated roles,
\* in list order, followed by the two escape options "add a new role" and
\* "unassigned"
C19_OptionsEndWithEscapes ==
    \A q \in 1..Len(ambiguities) :
        /\ Len(ambiguities[q].options) = Len(state.roles) + 2
        /\ \A k \in 1..Len(state.roles) : ambiguities[q].options[k] = state.roles[k].name
        /\ ambiguities[q].options[Len(state.roles) + 1] = NewRoleOption
        /\ ambiguities[q].options[Len(state.roles) + 2] = UnassignedOption

\* two questions that offer two roles and the two escape options
C19_Witness ==
    /\ Len(ambiguities) >= 2
    /\ Len(state.roles) = 2
    /\ \A q \in 1..Len(ambiguities) : Len(ambiguities[q].options) = 4

\* C20: a section for which the oracle fails contributes no entity and leaves
\* the name registries, the relationship maps, the accumulated flows and the
\* accumulated entities as they were; the run is not aborted: the section
\* counts as gone through and the workflow stays in the section loop
C20_OracleFailureContributesNothing ==
    [][oracle_errors' = oracle_errors + 1
          => /\ extracted' = NoCandidates
             /\ entities' = NoEntities
             /\ process_name_to_id' = process_name_to_id
             /\ role_name_to_id' = role_name_to_id
             /\ task_role_map' = task_role_map
             /\ task_process_map' = task_process_map
             /\ sequence_flows' = sequence_flows
             /\ all_processes' = all_processes
             /\ all_tasks' = all_tasks
             /\ all_roles' = all_roles
             /\ section_index' = section_index + 1
             /\ state' = state
             /\ state'.current_step = "extract_candidates"]_vars

\* a run consolidated after the oracle failed for the second of two sections,
\* the first having filled registries, maps and flows
C20_Witness ==
    /\ Consolidated
    /\ oracle_errors = 1
    /\ section_index = 2
    /\ extracted = NoCandidates
    /\ entities = NoEntities
    /\ Len(state.tasks) = 2
    /\ process_name_to_id # EmptyDict
    /\ role_name_to_id # EmptyDict
    /\ task_role_map # EmptyDict
    /\ task_process_map # EmptyDict
    /\ sequence_flows # << >>

\* C21: converting a chunk whose candidates have missing or null names or a
\* non-numeric order raises nothing, and the chunk yields an entity for each
\* of its process and task candidates
C21_MalformedCandidatesNeverRaise ==
    /\ exception = NoException
    /\ section_index > 0 =>
          /\ Len(entities.processes) = Len(extracted.processes)
          /\ Len(entities.tasks) = Len(extracted.tasks)

\* C22: a candidate role whose name is "" or missing is registered, without
\* an exception, as a Role named "Unknown Role" under the key "unknown role"
C22_NamelessRoleIsUnknownRole ==
    (\E k \in 1..Len(extracted.roles) : Get(extracted.roles[k], "name", Empty) = Empty)
        => /\ exception = NoException
           /\ Lower(UnknownRole) \in DOMAIN role_name_to_id
           /\ \E j \in 1..Len(all_roles) :
                 /\ all_roles[j].name = UnknownRole
                 /\ all_roles[j].role_id = role_name_to_id[Lower(UnknownRole)]
           /\ Empty \notin DOMAIN role_name_to_id

\* a name that is given and is the name of a task of the list, or part of it
NamesTask(name, tasks) ==
    /\ name # Empty
    /\ \E k \in 1..Len(tasks) :
          Lower(tasks[k].name) = Lower(name) \/ Contains(Lower(name), Lower(tasks[k].name))

\* a name that is given and is a key of the registry
NamesRegistered(name, reg) == name # Empty /\ Lower(name) \in DOMAIN reg

\* the candidates without the relationships that name a task, a role or a
\* process that is not there
WithoutDangling(ex, tasks, process_reg, role_reg) ==
    [ex EXCEPT
        !.tasks = [k \in 1..Len(ex.tasks) |->
            IF NamesRegistered(GetOrEmpty(ex.tasks[k], "performer_role"), role_reg)
            THEN ex.tasks[k]
            ELSE [f \in DOMAIN ex.tasks[k] \ {"performer_role"} |-> ex.tasks[k][f]]],
        !.task_role_mappings = SelectSeq(ex.task_role_mappings,
            LAMBDA m : /\ NamesTask(GetOrEmpty(m, "task_name"), tasks)
                       /\ NamesRegistered(GetOrEmpty(m, "role_name"), role_reg)),
        !.task_process_mappings = SelectSeq(ex.task_process_mappings,
            LAMBDA m : /\ NamesTask(GetOrEmpty(m, "task_name"), tasks)
                       /\ NamesRegistered(GetOrEmpty(m, "process_name"), process_reg)),
        !.sequence_flows = SelectSeq(ex.sequence_flows,
            LAMBDA f : /\ NamesTask(GetOrEmpty(f, "from_task"), tasks)
                       /\ NamesTask(GetOrEmpty(f, "to_task"), tasks))]

\* C23: a relationship of a chunk that names a task, a role or a process that
\* is not registered (an empty or missing name names none) creates no edge
\* and raises nothing: the chunk's task_role_map, task_process_map and
\* sequence flows are those of the chunk without that relationship
C23_DanglingRelationshipsAreDropped ==
    [][section_index' = section_index + 1
          => LET kept == WithoutDangling(extracted', entities'.tasks,
                                         process_name_to_id', role_name_to_id')
                 e == convert_to_entities(kept, process_name_to_id, role_name_to_id,
                                          Len(all_processes), Len(all_roles), Len(all_tasks),
                                          Len(all_gateways), Len(all_events))
             IN /\ exception' = NoException
                /\ entities'.task_role_map = e.task_role_map
                /\ entities'.task_process_map = e.task_process_map
                /\ entities'.sequence_flows = e.sequence_flows]_vars

\* the stated order of a candidate task, None when it states none
StatedOrder(t) == Get(t, "order", [type |-> "NoneType"])

\* a string that is an integer literal: digits, blanks around them ignored
IntegerString(s) == Strip(s) # << >> /\ AllDigits(Strip(s))

SameNamed(list, key) == {k \in 1..Len(list) : Strip(Lower(list[k].name)) = key}

\* C25: names that differ only in letter case or in blanks around them have
\* one registry key and one id: a second spelling of a registered Process or
\* Role creates no entity, and every entity is found in its registry under
\* its normalized name
C25_RegistryNormalizesNames ==
    /\ \A k \in 1..Len(all_processes) :
          LET key == Strip(Lower(all_processes[k].name))
          IN /\ SameNamed(all_processes, key) = {k}
             /\ key \in DOMAIN process_name_to_id
             /\ process_name_to_id[key] = all_processes[k].proc_id
    /\ \A k \in 1..Len(all_roles) :
          LET key == Strip(Lower(all_roles[k].name))
          IN /\ SameNamed(all_roles, key) = {k}
             /\ key \in DOMAIN role_name_to_id
             /\ role_name_to_id[key] = all_roles[k].role_id
    /\ \A key \in DOMAIN process_name_to_id \cup DOMAIN role_name_to_id : Strip(key) = key

\* the names a prompt context lists
Listed(list) == {list[k] : k \in 1..Len(list)}

\* C26: the sections are gone through in order, and from the second section
\* on the oracle is invoked with the process and role names registered so far
\* as its context, the conversion seeing the same registries
C26_OracleSeesRegisteredNames ==
    [][section_index' = section_index + 1
          => /\ (DOMAIN process_name_to_id # {} \/ DOMAIN role_name_to_id # {})
                   => /\ existing_context' # Empty
                      /\ Listed(existing_context'.process_list) = DOMAIN process_name_to_id
                      /\ Listed(existing_context'.role_list) = DOMAIN role_name_to_id
             /\ entities' = convert_to_entities(extracted', process_name_to_id, role_name_to_id,
                                                Len(all_processes), Len(all_roles), Len(all_tasks),
                                                Len(all_gateways), Len(all_events))]_vars

\* C27: tasks are not deduplicated by name across processes: of two
\* extracted tasks of one name that belong to different processes, both are
\* in the consolidated task list
C27_SameNameTasksOfTwoProcessesKept ==
    Consolidated =>
        \A i, j \in 1..Len(all_tasks) :
            (/\ i # j
             /\ all_tasks[i].name = all_tasks[j].name
             /\ all_tasks[i].process_id # all_tasks[j].process_id
             /\ all_tasks[i].process_id # 0
             /\ all_tasks[j].process_id # 0)
                => \E k, l \in 1..Len(state.tasks) :
                      /\ state.tasks[k].task_id = all_tasks[i].task_id
                      /\ state.tasks[l].task_id = all_tasks[j].task_id

\* the elements of the document of a tag among tags
ElementsOf(tags) == {k \in 1..Len(bpmn_xml) : bpmn_xml[k].tag \in tags}

TaskTags == {"bpmn:userTask", "bpmn:serviceTask", "bpmn:task"}

ExactlyNamed(name) == {k \in 1..Len(entities.tasks) : Lower(entities.tasks[k].name) = name}

PartlyNamed(name) == {k \in 1..Len(entities.tasks) : Contains(name, Lower(entities.tasks[k].name))}

\* the task a relationship of the chunk must resolve a name to when the
\* tasks of candidates are the ones to choose from: none when there is none
\* to choose, else the one of them that comes first
FirstOf(candidates) == CHOOSE k \in candidates : \A j \in candidates : k <= j

\* the chunk links the task named by each of its relationships as
\* Resolved(name) tells: its task-role mapping, its task-process mapping, both
\* ends of its explicit flow and its next_task hints; a name for which
\* Constrained(name) is false is left alone
ResolvesBy(Resolved(_), Constrained(_)) ==
    LET tasks == entities.tasks
        Name(bag, field) == Lower(GetOrEmpty(bag, field))
    IN /\ \A i \in 1..Len(extracted.task_role_mappings) :
             LET m == extracted.task_role_mappings[i]
             IN (Constrained(Name(m, "task_name")) /\ Name(m, "role_name") \in DOMAIN role_name_to_id)
                   => DOMAIN entities.task_role_map = {tasks[Resolved(Name(m, "task_name"))].task_id}
       /\ \A i \in 1..Len(extracted.task_process_mappings) :
             LET m == extracted.task_process_mappings[i]
                 proc_id == process_name_to_id[Name(m, "process_name")]
             IN (Constrained(Name(m, "task_name")) /\ Name(m, "process_name") \in DOMAIN process_name_to_id)
                   => {k \in 1..Len(tasks) : tasks[k].process_id = proc_id} = {Resolved(Name(m, "task_name"))}
       /\ \A i \in 1..Len(extracted.sequence_flows) :
             LET f == extracted.sequence_flows[i]
             IN (PartlyNamed(Name(f, "from_task")) # {} /\ PartlyNamed(Name(f, "to_task")) # {})
                   => /\ Constrained(Name(f, "from_task"))
                         => entities.sequence_flows[1].from_task_id = tasks[Resolved(Name(f, "from_task"))].task_id
                      /\ Constrained(Name(f, "to_task"))
                         => entities.sequence_flows[1].to_task_id = tasks[Resolved(Name(f, "to_task"))].task_id
       /\ \A k \in 1..Len(tasks) :
             (tasks[k].next_task_name # Empty /\ Constrained(Lower(tasks[k].next_task_name)))
                => /\ entities.sequence_flows[1].from_task_id = tasks[k].task_id
                   /\ entities.sequence_flows[1].to_task_id = tasks[Resolved(Lower(tasks[k].next_task_name))].task_id

\* C29: a relationship that names a task resolves to the task whose name is
\* exactly the given name, when there is one, in preference to tasks that
\* only have the name as a part, wherever those are in the list
C29_ExactMatchPreferred ==
    section_index > 0 =>
        ResolvesBy(LAMBDA name : FirstOf(ExactlyNamed(name)),
                   LAMBDA name : ExactlyNamed(name) # {})

\* C30: a relationship that names a task by a part of the names of several
\* tasks, none having exactly that name, resolves to the first of them in
\* insertion order, for mappings, both ends of explicit flows and hints alike
C30_FirstSubstringMatchWins ==
    section_index > 0 =>
        ResolvesBy(LAMBDA name : FirstOf(PartlyNamed(name)),
                   LAMBDA name : ExactlyNamed(name) = {} /\ Cardinality(PartlyNamed(name)) > 1)

\* a role has a keyword for a task: its lower-cased name, or its lower-cased
\* org_unit when it has one, is at least 3 characters long and is in the
\* lower-cased text made of the task's name, a space and its description
HasKeywordIn(role, task) ==
    \E keyword \in {Lower(role.name)}
                     \cup (IF role.org_unit # Empty THEN {Lower(role.org_unit)} ELSE {}) :
        /\ Len(keyword) >= 3
        /\ Contains(keyword, Lower(task.name \o <<" ">> \o task.description))

\* C31: the keyword inference of normalize_entities changes task_role_map only
\* by adding entries for tasks that had none: every entry present before the
\* pass is unchanged, and a task that gets a role gets the first role in list
\* order that has a keyword of at least 3 characters in the task's text
C31_InferenceOnlyAddsFirstKeywordRole ==
    [][state.current_step = "normalize_entities"
         => /\ \A id \in DOMAIN task_role_map :
                  id \in DOMAIN task_role_map' /\ task_role_map'[id] = task_role_map[id]
            /\ \A id \in DOMAIN task_role_map' \ DOMAIN task_role_map :
                  \E k \in 1..Len(state'.tasks), r \in 1..Len(state'.roles) :
                     /\ state'.tasks[k].task_id = id
                     /\ HasKeywordIn(state'.roles[r], state'.tasks[k])
                     /\ \A j \in 1..(r - 1) : ~HasKeywordIn(state'.roles[j], state'.tasks[k])
                     /\ task_role_map'[id] = state'.roles[r].role_id]_vars

\* after the pass: a task with keywords of two roles in its text has the first
\* listed one, a task that told its performer keeps that role though another
\* role is named in its text, and a task whose text only has a role name of 2
\* characters has no role
C31_Witness ==
    /\ state.current_step = "detect_ambiguities"
    /\ Len(state.roles) >= 2
    /\ \E k \in 1..Len(state.tasks) :
          /\ HasKeywordIn(state.roles[1], state.tasks[k])
          /\ HasKeywordIn(state.roles[2], state.tasks[k])
          /\ state.tasks[k].task_id \in DOMAIN task_role_map
          /\ task_role_map[state.tasks[k].task_id] = state.roles[1].role_id
    /\ \E k \in 1..Len(state.tasks), r \in 1..Len(state.roles) :
          /\ state.tasks[k].task_id \in DOMAIN task_role_map
          /\ task_role_map[state.tasks[k].task_id] # state.roles[r].role_id
          /\ HasKeywordIn(state.roles[r], state.tasks[k])
          /\ \A j \in 1..Len(state.roles) :
                task_role_map[state.tasks[k].task_id] = state.roles[j].role_id
                   => ~HasKeywordIn(state.roles[j], state.tasks[k])
    /\ \E k \in 1..Len(state.tasks), r \in 1..Len(state.roles) :
          /\ state.tasks[k].task_id \notin DOMAIN task_role_map
          /\ Contains(Lower(state.roles[r].name), Lower(state.tasks[k].name))

\* the first of the text matches that has the highest similarity of them
FirstBest(text_matches) ==
    CHOOSE k \in 1..Len(text_matches) :
        /\ \A j \in 1..Len(text_matches) : text_matches[j].similarity <= text_matches[k].similarity
        /\ \A j \in 1..(k - 1) : text_matches[j].similarity < text_matches[k].similarity

\* C32: the entity find_similar_entity returns is the one of the highest
\* similarity among those compared, and of several of that similarity the one
\* met first; a call on the same matches followed by one more that only ties
\* the best similarity returns what the call before returned
C32_BestMatchIsFirstOfHighest ==
    [][/\ sim_out'.match # 0 => sim_out'.match = sim_in'[FirstBest(sim_in')].node
       /\ (/\ sim_in # << >>
           /\ Len(sim_in') = Len(sim_in) + 1
           /\ SubSeq(sim_in', 1, Len(sim_in)) = sim_in
           /\ sim_in'[Len(sim_in')].similarity = sim_in[FirstBest(sim_in)].similarity)
             => sim_out' = sim_out]_vars

\* a call that returned the first of two matches of the best similarity, the
\* second coming last in the list
C32_Witness ==
    /\ Len(sim_in) >= 2
    /\ sim_out.match = sim_in[1].node
    /\ sim_in[Len(sim_in)].similarity = sim_in[1].similarity
    /\ \A k \in 1..Len(sim_in) : sim_in[k].similarity <= sim_in[1].similarity

\* C34: at the end of every workflow step, task_process_map maps every task
\* that has a process_id to that process_id
C34_TaskProcessMapAgreesWithTasks ==
    \A k \in 1..Len(state.tasks) :
        state.tasks[k].process_id # 0
            => /\ state.tasks[k].task_id \in DOMAIN task_process_map
               /\ task_process_map[state.tasks[k].task_id] = state.tasks[k].process_id

\* the positions of the lanes of the document that have a flowNodeRef to a task
LanesOf(task_id) ==
    {k \in 1..Len(bpmn_xml) :
        /\ bpmn_xml[k].tag = "bpmn:lane"
        /\ \E j \in 1..Len(bpmn_xml[k].flowNodeRef) :
              bpmn_xml[k].flowNodeRef[j] = Id("Task_", task_id)}

\* C36: in the document generate renders, every input task is referenced by
\* exactly one lane: the lane of the role task_role_map gives it, or the
\* Unassigned lane when the map gives it none
C36_EveryTaskInExactlyOneLane ==
    bpmn_in # NoArguments =>
        \A k \in 1..Len(bpmn_in.tasks) :
            LET task_id == bpmn_in.tasks[k].task_id
            IN /\ Cardinality(LanesOf(task_id)) = 1
               /\ \A lane \in LanesOf(task_id) :
                     bpmn_xml[lane].id =
                        IF task_id \in DOMAIN bpmn_in.task_role_map
                        THEN Id("Lane_", bpmn_in.task_role_map[task_id])
                        ELSE Id("Lane_Unassigned", 0)

\* the sequence flows of the document, and the ids of its events and tasks
FlowElements == SelectSeq(bpmn_xml, LAMBDA e : e.tag = "bpmn:sequenceFlow")

FlowNodeIds ==
    {bpmn_xml[k].id : k \in {j \in 1..Len(bpmn_xml) :
        bpmn_xml[j].tag \in {"bpmn:startEvent", "bpmn:endEvent"} \cup TaskTags}}

\* C37: the sequence flows of the document have ids unique among them, the
\* source and the target of each is the id of a rendered start event, task or
\* end event, and every flow a task element names as incoming or outgoing is
\* one of them
C37_FlowsAreUniqueAndConnected ==
    bpmn_in # NoArguments =>
        /\ \A i, j \in 1..Len(FlowElements) : i # j => FlowElements[i].id # FlowElements[j].id
        /\ \A i \in 1..Len(FlowElements) :
              /\ FlowElements[i].sourceRef \in FlowNodeIds
              /\ FlowElements[i].targetRef \in FlowNodeIds
        /\ \A k \in 1..Len(bpmn_xml) :
              bpmn_xml[k].tag \in TaskTags =>
                 \A ref \in {bpmn_xml[k].incoming[j] : j \in 1..Len(bpmn_xml[k].incoming)}
                              \cup {bpmn_xml[k].outgoing[j] : j \in 1..Len(bpmn_xml[k].outgoing)} :
                    \E i \in 1..Len(FlowElements) : FlowElements[i].id = ref

\* C33: once render_continue_processing has assembled the document after the
\* questions step, every task of the document that the task-role map of the
\* processing run gives a role is referenced by that role's lane and not by
\* the Unassigned lane
C33_ContinueProcessingUsesTaskRoleMap ==
    (state.current_step = "completed" /\ ambiguities # << >>) =>
        \A k \in 1..Len(bpmn_in.tasks) :
            LET task_id == bpmn_in.tasks[k].task_id
            IN task_id \in DOMAIN task_role_map =>
                  \A lane \in LanesOf(task_id) :
                      bpmn_xml[lane].id = Id("Lane_", task_role_map[task_id])

\* C35: every run of the compiled workflow graph terminates: once
\* detect_ambiguities has run, the run eventually reaches export_artifacts and
\* END, whatever user_answer holds when apply_user_answer runs
C35_GraphRunTerminates ==
    (state.current_step \in {"ask_user", "generate_skills"}) ~> (state.current_step = "completed")

\* the ids of a list of objects, and the place of an id's first object in it
IdSet(l) == {l[k].id : k \in 1..Len(l)}

FirstPlace(l, id) == CHOOSE k \in 1..Len(l) : l[k].id = id /\ \A j \in 1..(k - 1) : l[j].id # id

\* C40: merge_list(existing, new) is existing in its order, followed by the
\* objects of new whose id existing does not have, each once and in the order
\* of new; no two objects of the result have the same id, and merging the
\* same new again changes nothing, so the state list never gets shorter
C40_MergeListKeepsExistingAndAddsNewIds ==
    [][LET existing == merge_in'.existing
           new == merge_in'.new
           added == SubSeq(merge_out', Len(existing) + 1, Len(merge_out'))
       IN /\ Len(merge_out') >= Len(existing)
          /\ SubSeq(merge_out', 1, Len(existing)) = existing
          /\ IdSet(added) = IdSet(new) \ IdSet(existing)
          /\ \A i, j \in 1..Len(added) :
                i < j => FirstPlace(new, added[i].id) < FirstPlace(new, added[j].id)
          /\ \A i, j \in 1..Len(merge_out') : i # j => merge_out'[i].id # merge_out'[j].id
          /\ new = merge_in.new => merge_out' = merge_out]_vars

\* a list of two objects was merged with a list that holds the second of
\* them and then an object made since, which alone was added
C40_Witness ==
    /\ Len(merge_in.existing) = 2
    /\ Len(merge_in.new) = 2
    /\ merge_in.new[1].id = merge_in.existing[2].id
    /\ merge_in.new[2].id \notin IdSet(merge_in.existing)
    /\ Len(merge_out) = 3

\* the status of a job and the state of its stream, "none" when there is no such job
StatusOf(job_id) ==
    IF job_id \in DOMAIN job_progress THEN job_progress[job_id].status ELSE "none"

StreamOf(job_id) == IF job_id \in DOMAIN job_streams THEN job_streams[job_id] ELSE "none"

\* the runs of a job that have not ended
ActiveRuns(job_id) ==
    {r \in DOMAIN job_runs : job_runs[r].job_id = job_id /\ job_runs[r].pc \notin {"completed", "error"}}

\* a job has at most one run going, its status is "processing" exactly while
\* a run of it is going, and after its last run it is the status that run set
OneRunPerJob ==
    \A job_id \in DOMAIN job_progress :
        /\ Cardinality(ActiveRuns(job_id)) <= 1
        /\ job_progress[job_id].status = "processing" <=> ActiveRuns(job_id) # {}
        /\ \A r \in DOMAIN job_runs :
              (job_runs[r].job_id = job_id /\ ActiveRuns(job_id) = {}
                  /\ \A q \in DOMAIN job_runs : job_runs[q].job_id = job_id => q <= r)
                 => job_progress[job_id].status = job_runs[r].pc

\* a run is added only for a job that is not being processed, whose status is
\* "processing" when the request is answered; a request for a job that is
\* being processed is answered 400 and adds none; and a stream ends only on
\* the status "completed" or "error"
StartAndStreamSteps ==
    /\ Len(job_runs') > Len(job_runs) =>
          LET job_id == job_runs'[Len(job_runs')].job_id
          IN /\ Len(job_runs') = Len(job_runs) + 1
             /\ job_progress[job_id].status # "processing"
             /\ job_progress'[job_id].status = "processing"
             /\ http_response' = [code |-> 200, job_id |-> job_id]
    /\ \A job_id \in DOMAIN job_progress :
          /\ (http_response' = [code |-> 400, job_id |-> job_id] /\ http_response' # http_response)
                => /\ job_progress[job_id].status = "processing"
                   /\ job_runs' = job_runs
                   /\ job_progress' = job_progress
          /\ (job_streams[job_id] = "open" /\ job_streams'[job_id] = "ended")
                => job_progress[job_id].status \in {"completed", "error"}

\* C39: a job is never processed by two background runs at once:
\* start_processing answers 400 and starts nothing while the status is
\* "processing", the status is "processing" from the answer to a start
\* request until the run sets "completed" or "error", and time and again
\* every run started has come to one of the two and no stream is left open
\* on a job with one of the two
C39_OneBackgroundRunPerJob ==
    /\ []OneRunPerJob
    /\ [][StartAndStreamSteps]_vars
    /\ []<>(\A job_id \in 1..MaxJobs :
                /\ StatusOf(job_id) # "processing"
                /\ StreamOf(job_id) = "open" => StatusOf(job_id) \notin {"completed", "error"})

\* a second start request was answered 400 while the first run was going,
\* and after that run ended the job was started again
C39_Witness ==
    /\ Len(job_runs) = 2
    /\ job_runs[1].job_id = job_runs[2].job_id
    /\ job_runs[1].pc \in {"completed", "error"}
    /\ job_runs[2].pc = "normalize_entities"
    /\ job_progress[job_runs[2].job_id].status = "processing"
    /\ http_response = [code |-> 400, job_id |-> job_runs[2].job_id]
    /\ job_streams[job_runs[2].job_id] = "ended"

\* the last run of a job
LastRun(job_id) ==
    CHOOSE r \in DOMAIN job_runs :
        /\ job_runs[r].job_id = job_id
        /\ \A q \in DOMAIN job_runs : job_runs[q].job_id = job_id => q <= r

\* the job of the run that made the graph node with this id
JobOfNode(id) == job_runs[id \div 100].job_id

\* C38: a completed job whose run went on while another job was processed
\* reports, at its bpmn_path, the document its own run generated, and none of
\* its tasks was dropped as a duplicate of a task of such another job
C38_JobsAreIsolated ==
    \A job_id \in DOMAIN job_progress :
        (job_progress[job_id].status = "completed" /\ job_runs[LastRun(job_id)].overlaps # {}) =>
            LET run == job_runs[LastRun(job_id)]
            IN /\ Get(output_dir, job_progress[job_id].result.bpmn_path, << >>) = run.bpmn_xml
               /\ \A k \in 1..Len(run.sim_log.Task) :
                     run.sim_log.Task[k].action = "merge"
                        => JobOfNode(run.sim_log.Task[k].match) \notin run.overlaps

====
